---- MODULE Spec2Model ----
(***************************************************************************)
(* ISON parsing/serialization engine: the Go port (package ison), the      *)
(* JavaScript reference port (ison-js) and the TypeScript port (ison-ts).  *)
(* Text is a sequence of one-character strings; a Document is what the     *)
(* port's parser builds from it and what its serializer renders back.      *)
(***************************************************************************)
EXTENDS Integers, Sequences, FiniteSets, TLC

VARIABLES port, text, pc, doc, opts, out, doc2, out2, stream

vars == <<port, text, pc, doc, opts, out, doc2, out2, stream>>

(* ---------------------------- characters ------------------------------ *)
SP == " "
TAB == "\t"
NL == "\n"
CR == "\r"
DQ == "\""
BS == "\\"

Digits == <<"0", "1", "2", "3", "4", "5", "6", "7", "8", "9">>
UpperLetters == <<"A", "B", "C", "D", "E", "F", "G", "H", "I", "J", "K", "L", "M",
                  "N", "O", "P", "Q", "R", "S", "T", "U", "V", "W", "X", "Y", "Z">>
LowerLetters == <<"a", "b", "c", "d", "e", "f", "g", "h", "i", "j", "k", "l", "m",
                  "n", "o", "p", "q", "r", "s", "t", "u", "v", "w", "x", "y", "z">>

(* ------------------------- literal words ------------------------------ *)
W_true == <<"t", "r", "u", "e">>
W_false == <<"f", "a", "l", "s", "e">>
W_null == <<"n", "u", "l", "l">>
W_NULL == <<"N", "U", "L", "L">>
W_TRUE == <<"T", "R", "U", "E">>
W_FALSE == <<"F", "A", "L", "S", "E">>
W_table == <<"t", "a", "b", "l", "e">>
W_object == <<"o", "b", "j", "e", "c", "t">>
W_meta == <<"m", "e", "t", "a">>
W_int == <<"i", "n", "t">>
W_float == <<"f", "l", "o", "a", "t">>
W_bool == <<"b", "o", "o", "l">>
W_string == <<"s", "t", "r", "i", "n", "g">>
W_ref == <<"r", "e", "f">>
W_computed == <<"c", "o", "m", "p", "u", "t", "e", "d">>
W_dashes == <<"-", "-", "-">>

Range(f) == {f[i] : i \in DOMAIN f}
IsDigit(c) == c \in Range(Digits)
IsUpper(c) == c \in Range(UpperLetters)
IsLower(c) == c \in Range(LowerLetters)
DigitVal(c) == (CHOOSE i \in DOMAIN Digits : Digits[i] = c) - 1
ToLowerChar(c) ==
    IF IsUpper(c) THEN LowerLetters[CHOOSE i \in DOMAIN UpperLetters : UpperLetters[i] = c]
    ELSE c
ToUpperChar(c) ==
    IF IsLower(c) THEN UpperLetters[CHOOSE i \in DOMAIN LowerLetters : LowerLetters[i] = c]
    ELSE c
ToLower(s) == [i \in DOMAIN s |-> ToLowerChar(s[i])]
ToUpper(s) == [i \in DOMAIN s |-> ToUpperChar(s[i])]

(* ------------------------- string primitives -------------------------- *)
IsWS(c) == c \in {SP, TAB, NL, CR}

RECURSIVE TrimLeft(_)
TrimLeft(s) == IF s # <<>> /\ IsWS(Head(s)) THEN TrimLeft(Tail(s)) ELSE s

RECURSIVE TrimRight(_)
TrimRight(s) ==
    IF s # <<>> /\ IsWS(s[Len(s)]) THEN TrimRight(SubSeq(s, 1, Len(s) - 1)) ELSE s

TrimSpace(s) == TrimRight(TrimLeft(s))

RECURSIVE TrimRightCR(_)
TrimRightCR(s) ==
    IF s # <<>> /\ s[Len(s)] = CR THEN TrimRightCR(SubSeq(s, 1, Len(s) - 1)) ELSE s

Contains(s, c) == \E i \in DOMAIN s : s[i] = c
HasPrefix(s, p) == Len(s) >= Len(p) /\ SubSeq(s, 1, Len(p)) = p

\* index of the first c in s, 0 when there is none (the code's -1)
IndexOf(s, c) ==
    IF Contains(s, c) THEN CHOOSE i \in DOMAIN s : s[i] = c /\ \A j \in 1..(i - 1) : s[j] # c
    ELSE 0

RECURSIVE SplitFrom(_, _, _, _)
SplitFrom(s, c, i, cur) ==
    IF i > Len(s) THEN <<cur>>
    ELSE IF s[i] = c THEN <<cur>> \o SplitFrom(s, c, i + 1, <<>>)
    ELSE SplitFrom(s, c, i + 1, Append(cur, s[i]))

\* s.split(c): every segment between occurrences of c
Split(s, c) == SplitFrom(s, c, 1, <<>>)

\* strings.SplitN(s, c, 2) and [head, ...rest] = s.split(c); rest.join(c)
SplitFirst(s, c) ==
    LET i == IndexOf(s, c)
    IN IF i = 0 THEN <<s>> ELSE <<SubSeq(s, 1, i - 1), SubSeq(s, i + 1, Len(s))>>

RECURSIVE Join(_, _)
Join(parts, sep) ==
    IF parts = <<>> THEN <<>>
    ELSE IF Len(parts) = 1 THEN parts[1]
    ELSE parts[1] \o sep \o Join(Tail(parts), sep)

RECURSIVE Spaces(_)
Spaces(n) == IF n <= 0 THEN <<>> ELSE <<SP>> \o Spaces(n - 1)

\* s.padEnd(width)
PadEnd(s, width) == s \o Spaces(width - Len(s))

Max(a, b) == IF a >= b THEN a ELSE b
Min(a, b) == IF a <= b THEN a ELSE b

(* ------------------------------ numbers ------------------------------- *)
AllDigits(s) == s # <<>> /\ \A i \in DOMAIN s : IsDigit(s[i])

RECURSIVE DigitsToNat(_)
DigitsToNat(s) ==
    IF s = <<>> THEN 0 ELSE 10 * DigitsToNat(SubSeq(s, 1, Len(s) - 1)) + DigitVal(s[Len(s)])

RECURSIVE NatToDigits(_)
NatToDigits(n) ==
    IF n < 10 THEN <<Digits[n + 1]>> ELSE NatToDigits(n \div 10) \o <<Digits[(n % 10) + 1]>>

RECURSIVE Pow10(_)
Pow10(k) == IF k = 0 THEN 1 ELSE 10 * Pow10(k - 1)

\* decimal text of an integer: strconv.FormatInt(v, 10), String(n) for integral n
FormatInt(n) == IF n < 0 THEN <<"-">> \o NatToDigits(0 - n) ELSE NatToDigits(n)

\* a decimal m / 10^k with no trailing zero in the fraction (k = 0: integral)
RECURSIVE Normalize(_, _)
Normalize(m, k) == IF k > 0 /\ m % 10 = 0 THEN Normalize(m \div 10, k - 1) ELSE <<m, k>>

RECURSIVE ZeroPad(_, _)
ZeroPad(s, width) == IF Len(s) >= width THEN s ELSE ZeroPad(<<"0">> \o s, width)

\* shortest decimal text that reads back as m / 10^k (k > 0, m normalized)
FormatDecimal(m, k) ==
    LET a == IF m < 0 THEN 0 - m ELSE m
    IN (IF m < 0 THEN <<"-">> ELSE <<>>) \o NatToDigits(a \div Pow10(k)) \o <<".">>
       \o ZeroPad(NatToDigits(a % Pow10(k)), k)

\* sign? digits: the syntax strconv.ParseInt(s, 10, 64) accepts (plus = TRUE)
\* and the pattern ^-?[0-9]+$ (plus = FALSE)
IsIntSyntax(s, plus) ==
    /\ s # <<>>
    /\ LET d == IF s[1] = "-" \/ (plus /\ s[1] = "+") THEN Tail(s) ELSE s
       IN AllDigits(d)

ParseIntText(s) ==
    IF s[1] = "-" THEN 0 - DigitsToNat(Tail(s))
    ELSE IF s[1] = "+" THEN DigitsToNat(Tail(s))
    ELSE DigitsToNat(s)

\* the pattern ^-?[0-9]+\.[0-9]+$
IsDecimalPattern(s) ==
    /\ s # <<>>
    /\ LET d == IF s[1] = "-" THEN Tail(s) ELSE s
           p == SplitFirst(d, ".")
       IN Len(p) = 2 /\ AllDigits(p[1]) /\ AllDigits(p[2])

\* the decimal literals without exponent that strconv.ParseFloat and the
\* JavaScript Number() conversion accept: sign? (digits [. digits*] | . digits)
IsDecimalLiteral(s) ==
    /\ s # <<>>
    /\ LET d == IF s[1] \in {"-", "+"} THEN Tail(s) ELSE s
           p == SplitFirst(d, ".")
       IN IF Len(p) = 1 THEN AllDigits(d)
          ELSE /\ p[1] = <<>> \/ AllDigits(p[1])
               /\ p[2] = <<>> \/ AllDigits(p[2])
               /\ p[1] # <<>> \/ p[2] # <<>>

\* value of a decimal literal as normalized <<m, k>>
ParseDecimalText(s) ==
    LET neg == s[1] = "-"
        d == IF s[1] \in {"-", "+"} THEN Tail(s) ELSE s
        p == SplitFirst(d, ".")
        frac == IF Len(p) = 2 THEN p[2] ELSE <<>>
        a == DigitsToNat(p[1]) * Pow10(Len(frac)) + DigitsToNat(frac)
    IN Normalize(IF neg THEN 0 - a ELSE a, Len(frac))

(* =========================== Go port (package ison) ==================== *)
Null == [t |-> "Null"]
Bool(v) == [t |-> "Bool", b |-> v]
IntV(v) == [t |-> "Int", n |-> v]
\* a float64 with a short decimal expansion, kept as d = <<m, k>> = m / 10^k
Float(d) == [t |-> "Float", m |-> d[1], k |-> d[2]]
String(v) == [t |-> "String", s |-> v]
Ref(r) == [t |-> "Ref", r |-> r]

\* Reference{ID, Namespace, Relationship}; an unset Go string field is ""
Reference(id, namespace, relationship) ==
    [ID |-> id, Namespace |-> namespace, Relationship |-> relationship]

ReferenceToISON(r) ==
    IF r.Relationship # <<>> THEN <<":">> \o r.Relationship \o <<":">> \o r.ID
    ELSE IF r.Namespace # <<>> THEN <<":">> \o r.Namespace \o <<":">> \o r.ID
    ELSE <<":">> \o r.ID

RECURSIVE EscapeWith(_, _)
\* strings.ReplaceAll / s.replace(/c/g, ...) applied for every c of esc, where
\* esc maps a character to its two-character escape; backslash is replaced first
EscapeWith(s, esc) ==
    IF s = <<>> THEN <<>>
    ELSE (IF Head(s) \in DOMAIN esc THEN esc[Head(s)] ELSE <<Head(s)>>)
         \o EscapeWith(Tail(s), esc)

GoEscapes == (BS :> <<BS, BS>>) @@ (DQ :> <<BS, DQ>>) @@ (NL :> <<BS, "n">>)
             @@ (TAB :> <<BS, "t">>)

ValueToISON(v) ==
    CASE v.t = "Null" -> <<"~">>
      [] v.t = "Bool" -> IF v.b THEN W_true ELSE W_false
      [] v.t = "Int" -> FormatInt(v.n)
      [] v.t = "Float" -> IF v.k = 0 THEN FormatInt(v.m) ELSE FormatDecimal(v.m, v.k)
      [] v.t = "String" ->
            IF (\E i \in DOMAIN v.s : v.s[i] \in {SP, TAB, NL, DQ}) \/ v.s = <<>>
            THEN <<DQ>> \o EscapeWith(v.s, GoEscapes) \o <<DQ>>
            ELSE v.s
      [] v.t = "Ref" -> ReferenceToISON(v.r)

NewBlock(kind, name) ==
    [Kind |-> kind, Name |-> name, Fields |-> <<>>, Rows |-> <<>>, SummaryRow |-> <<>>]

NewDocument == [Blocks |-> <<>>, Order |-> <<>>]

AddBlock_appending(d, block) ==
    [Blocks |-> (block.Name :> block) @@ d.Blocks,
     Order |-> Append(d.Order, block.Name)]

AddBlock(d, block) ==
    [Blocks |-> (block.Name :> block) @@ d.Blocks,
     Order |-> IF block.Name \in DOMAIN d.Blocks THEN d.Order
               ELSE Append(d.Order, block.Name)]

splitLines(t) == LET ls == Split(t, NL) IN [i \in DOMAIN ls |-> TrimRightCR(ls[i])]

isValidKind(kind) ==
    kind \in {W_table, W_object,
              W_meta}

parseFieldDef(field) ==
    LET idx == IndexOf(field, ":")
    IN IF idx > 1
       THEN [Name |-> SubSeq(field, 1, idx - 1), TypeHint |-> SubSeq(field, idx + 1, Len(field))]
       ELSE [Name |-> field, TypeHint |-> <<>>]

RECURSIVE tokenizeFrom(_, _, _, _, _, _)
tokenizeFrom(line, i, tokens, current, inQuotes, escaped) ==
    IF i > Len(line) THEN (IF current # <<>> THEN Append(tokens, current) ELSE tokens)
    ELSE LET ch == line[i] IN
         IF escaped THEN
            tokenizeFrom(line, i + 1, tokens,
                         Append(current, CASE ch = "n" -> NL [] ch = "t" -> TAB [] OTHER -> ch),
                         inQuotes, FALSE)
         ELSE IF ch = BS /\ inQuotes THEN
            tokenizeFrom(line, i + 1, tokens, current, inQuotes, TRUE)
         ELSE IF ch = DQ THEN
            tokenizeFrom(line, i + 1, tokens, current, ~inQuotes, FALSE)
         ELSE IF ~inQuotes /\ ch \in {SP, TAB} THEN
            tokenizeFrom(line, i + 1,
                         IF current # <<>> THEN Append(tokens, current) ELSE tokens,
                         <<>>, inQuotes, FALSE)
         ELSE tokenizeFrom(line, i + 1, tokens, Append(current, ch), inQuotes, FALSE)

tokenizeLine(line) == tokenizeFrom(line, 1, <<>>, <<>>, FALSE, FALSE)

parseReference(token) ==
    IF ~HasPrefix(token, <<":">>) THEN Reference(token, <<>>, <<>>)
    ELSE LET parts == SplitFirst(Tail(token), ":") IN
         IF Len(parts) = 1 THEN Reference(parts[1], <<>>, <<>>)
         ELSE LET namespace == parts[1]
                  id == parts[2]
              IN IF /\ ToUpper(namespace) = namespace
                    /\ Len(namespace) > 0
                    /\ \A i \in DOMAIN namespace : namespace[i] = "_" \/ IsUpper(namespace[i])
                 THEN Reference(id, <<>>, namespace)
                 ELSE Reference(id, namespace, <<>>)

\* strconv.ParseInt / strconv.ParseFloat succeed on these texts; the model's
\* texts hold no exponent, hex, inf or nan spelling and at most a few digits
parseValueAuto(token) ==
    IF IsIntSyntax(token, TRUE) THEN IntV(ParseIntText(token))
    ELSE IF IsDecimalLiteral(token) THEN Float(ParseDecimalText(token))
    ELSE String(token)

parseValue(token, typeHint) ==
    IF token \in {<<"~">>, W_null, W_NULL} THEN Null
    ELSE IF token \in {W_true, W_TRUE} THEN Bool(TRUE)
    ELSE IF token \in {W_false, W_FALSE} THEN Bool(FALSE)
    ELSE IF HasPrefix(token, <<":">>) THEN Ref(parseReference(token))
    ELSE CASE typeHint = W_int /\ IsIntSyntax(token, TRUE) ->
                 IntV(ParseIntText(token))
           [] typeHint = W_float /\ IsDecimalLiteral(token) ->
                 Float(ParseDecimalText(token))
           [] typeHint = W_bool /\ token = <<"1">> -> Bool(TRUE)
           [] typeHint = W_bool /\ token = <<"0">> -> Bool(FALSE)
           [] typeHint = W_string -> String(token)
           [] typeHint = W_ref -> String(token)
           [] OTHER -> parseValueAuto(token)

RECURSIVE rowFrom(_, _, _, _)
\* for i, token := range tokens { if i < len(block.Fields) { row[name] = value } }
rowFrom(tokens, Fields, i, row) ==
    IF i > Len(tokens) THEN row
    ELSE rowFrom(tokens, Fields, i + 1,
                 IF i <= Len(Fields)
                 THEN (Fields[i].Name :> parseValue(tokens[i], Fields[i].TypeHint)) @@ row
                 ELSE row)

RECURSIVE skipBlankOrComment(_, _)
skipBlankOrComment(lines, pos) ==
    IF pos <= Len(lines)
       /\ LET line == TrimSpace(lines[pos]) IN line = <<>> \/ HasPrefix(line, <<"#">>)
    THEN skipBlankOrComment(lines, pos + 1)
    ELSE pos

\* strings.Contains(line, ".") && !strings.HasPrefix(line, "\"") and then
\* len(parts) == 2 && isValidKind(parts[0])
isBlockStart(line) ==
    /\ Contains(line, ".")
    /\ ~HasPrefix(line, <<DQ>>)
    /\ LET parts == SplitFirst(line, ".") IN Len(parts) = 2 /\ isValidKind(parts[1])

RECURSIVE parseRows(_, _, _, _)
parseRows(lines, pos, block, inSummary) ==
    IF pos > Len(lines) THEN [block |-> block, pos |-> pos]
    ELSE LET line == TrimSpace(lines[pos]) IN
         IF line = <<>> THEN [block |-> block, pos |-> pos + 1]
         ELSE IF HasPrefix(line, <<"#">>) THEN parseRows(lines, pos + 1, block, inSummary)
         ELSE IF isBlockStart(line) THEN [block |-> block, pos |-> pos]
         ELSE IF line = W_dashes THEN parseRows(lines, pos + 1, block, TRUE)
         ELSE LET row == rowFrom(tokenizeLine(line), block.Fields, 1, <<>>) IN
              parseRows(lines, pos + 1,
                        IF inSummary THEN [block EXCEPT !.SummaryRow = <<row>>]
                        ELSE [block EXCEPT !.Rows = Append(@, row)],
                        inSummary)

\* returns the block and the parser's p.pos after it (positions count from 1)
parseBlock(lines, pos0, kind, name) ==
    LET pos == skipBlankOrComment(lines, pos0 + 1) IN
    IF pos > Len(lines) THEN [block |-> NewBlock(kind, name), pos |-> pos]
    ELSE LET fields == tokenizeLine(TrimSpace(lines[pos]))
             block == [NewBlock(kind, name) EXCEPT
                          !.Fields = [i \in DOMAIN fields |-> parseFieldDef(fields[i])]]
         IN parseRows(lines, pos + 1, block, FALSE)

RECURSIVE parseFrom(_, _, _)
parseFrom(lines, pos, d) ==
    IF pos > Len(lines) THEN d
    ELSE LET line == TrimSpace(lines[pos]) IN
         IF line = <<>> \/ HasPrefix(line, <<"#">>) THEN parseFrom(lines, pos + 1, d)
         ELSE IF isBlockStart(line)
         THEN LET parts == SplitFirst(line, ".")
                  r == parseBlock(lines, pos, parts[1], parts[2])
              IN parseFrom(lines, r.pos, AddBlock(d, r.block))
         ELSE parseFrom(lines, pos + 1, d)

\* Parse never returns an error: err is always "none"
Parse(t) == [err |-> "none", doc |-> parseFrom(splitLines(t), 1, NewDocument)]

DefaultDumpsOptions == [AlignColumns |-> FALSE, Delimiter |-> <<SP>>]

fieldHeader(Fields, delim) ==
    Join([j \in DOMAIN Fields |->
             IF Fields[j].TypeHint # <<>>
             THEN Fields[j].Name \o <<":">> \o Fields[j].TypeHint
             ELSE Fields[j].Name], delim)

rowLine(row, Fields, delim) ==
    Join([j \in DOMAIN Fields |->
             IF Fields[j].Name \in DOMAIN row THEN ValueToISON(row[Fields[j].Name])
             ELSE <<"~">>], delim)

blockText(block, delim) ==
    block.Kind \o <<".">> \o block.Name \o <<NL>>
    \o fieldHeader(block.Fields, delim) \o <<NL>>
    \o Join([i \in DOMAIN block.Rows |-> rowLine(block.Rows[i], block.Fields, delim) \o <<NL>>],
            <<>>)
    \o (IF block.SummaryRow # <<>>
        THEN W_dashes \o <<NL>> \o rowLine(block.SummaryRow[1], block.Fields, delim) \o <<NL>>
        ELSE <<>>)

\* the column widths the code computes are never used: AlignColumns changes nothing
DumpsWithOptions(d, o) ==
    LET delim == IF o.Delimiter = <<>> THEN <<SP>> ELSE o.Delimiter IN
    Join([i \in DOMAIN d.Order |-> blockText(d.Blocks[d.Order[i]], delim)], <<NL>>)

Dumps(d) == DumpsWithOptions(d, DefaultDumpsOptions)

\* Value.Interface(): the plain Go value held by the Value
Interface(v) ==
    CASE v.t = "Null" -> [go |-> "nil"]
      [] v.t = "Bool" -> [go |-> "bool", v |-> v.b]
      [] v.t = "Int" -> [go |-> "int64", v |-> v.n]
      [] v.t = "Float" -> [go |-> "float64", v |-> <<v.m, v.k>>]
      [] v.t = "String" -> [go |-> "string", v |-> v.s]
      [] v.t = "Ref" -> [go |-> "Reference", v |-> v.r]

\* a node of the generic tree: one map, or a list of maps
MapNode(m) == [shape |-> "map", items |-> <<m>>]
ListNode(ms) == [shape |-> "list", items |-> ms]

\* Document.ToJSON: the map handed to json.MarshalIndent, one list of row
\* maps per block name
ToJSON(d) ==
    [name \in DOMAIN d.Blocks |->
        ListNode([i \in DOMAIN d.Blocks[name].Rows |->
                     [k \in DOMAIN d.Blocks[name].Rows[i] |->
                         Interface(d.Blocks[name].Rows[i][k])]])]

(* ---- the parser's loops, one turn at a time ---- *)
\* Where a parser stands: the loop it is in, its cursor (p.pos, lineNum, pos),
\* the fields of the block being read, the error thrown, and whether the row
\* loop has just ended at a header line it left unread.
Cursor(loop, pos, fields, err, pending) ==
    [loop |-> loop, pos |-> pos, fields |-> fields, err |-> err, pending |-> pending]
\* the same parse moved on to a loop and a position
MoveTo(c, loop, pos) == Cursor(loop, pos, c.fields, c.err, FALSE)
\* the parse ended by an error
Thrown(c, pos, err) == Cursor("thrown", pos, c.fields, err, FALSE)

\* one turn of the loop of Parser.parse, line the trimmed current line
parseLine(c, line) ==
    IF line = <<>> \/ HasPrefix(line, <<"#">>) THEN MoveTo(c, "parse", c.pos + 1)
    ELSE IF isBlockStart(line) THEN MoveTo(c, "fields", c.pos + 1)
    ELSE MoveTo(c, "parse", c.pos + 1)

parseTurn(lines, c) ==
    IF c.pos > Len(lines) THEN MoveTo(c, "returned", c.pos)
    ELSE parseLine(c, TrimSpace(lines[c.pos]))

\* parseBlock up to the field line: one turn of its first loop, or the step
\* past the field line
fieldsTurn(lines, c) ==
    IF c.pos > Len(lines) THEN MoveTo(c, "parse", c.pos)
    ELSE IF TrimSpace(lines[c.pos]) = <<>> \/ HasPrefix(TrimSpace(lines[c.pos]), <<"#">>)
    THEN MoveTo(c, "fields", c.pos + 1)
    ELSE MoveTo(c, "rows", c.pos + 1)

\* a row loop that reads a comment line again and again
rowsLine_rereading(c, line) ==
    IF line = <<>> THEN MoveTo(c, "parse", c.pos + 1)
    ELSE IF HasPrefix(line, <<"#">>) THEN MoveTo(c, "rows", c.pos)
    ELSE IF isBlockStart(line) THEN Cursor("parse", c.pos, c.fields, c.err, TRUE)
    ELSE MoveTo(c, "rows", c.pos + 1)

\* one turn of the row loop of parseBlock, line the trimmed current line
rowsLine(c, line) ==
    IF line = <<>> THEN MoveTo(c, "parse", c.pos + 1)
    ELSE IF HasPrefix(line, <<"#">>) THEN MoveTo(c, "rows", c.pos + 1)
    ELSE IF isBlockStart(line) THEN Cursor("parse", c.pos, c.fields, c.err, TRUE)
    ELSE MoveTo(c, "rows", c.pos + 1)

rowsTurn(lines, c) ==
    IF c.pos > Len(lines) THEN MoveTo(c, "parse", c.pos)
    ELSE rowsLine(c, TrimSpace(lines[c.pos]))

(* ---- a generic tree imported as a Document ---- *)
\* the orders in which one `range` over a map with these keys may visit them:
\* Go leaves the iteration order of a map unspecified
Orders(keys) ==
    {order \in [1..Cardinality(keys) -> keys] : \A k \in keys : \E i \in DOMAIN order : order[i] = k}

\* bytes in ascending order, as sort.Strings compares them
ByteOrder == Digits \o UpperLetters \o <<"_">> \o LowerLetters
ByteRank(c) == CHOOSE i \in DOMAIN ByteOrder : ByteOrder[i] = c

RECURSIVE StringLess(_, _)
StringLess(a, b) ==
    IF b = <<>> THEN FALSE
    ELSE IF a = <<>> THEN TRUE
    ELSE IF Head(a) # Head(b) THEN ByteRank(Head(a)) < ByteRank(Head(b))
    ELSE StringLess(Tail(a), Tail(b))

\* sort.Strings(names)
SortStrings(names) ==
    CHOOSE order \in Orders(names) :
        \A i, j \in DOMAIN order : i < j => StringLess(order[i], order[j])

HasSuffix(s, suffix) ==
    Len(s) >= Len(suffix) /\ SubSeq(s, Len(s) - Len(suffix) + 1, Len(s)) = suffix

interfaceToValue(v) ==
    CASE v.go = "nil" -> Null
      [] v.go = "bool" -> Bool(v.v)
      [] v.go = "float64" -> IF v.v[2] = 0 THEN IntV(v.v[1]) ELSE Float(v.v)
      [] v.go = "int64" -> IntV(v.v)
      [] v.go = "string" -> String(v.v)

\* block.AddField(key, "") for the keys in the order given
withFields(block, keys) ==
    [block EXCEPT !.Fields = @ \o [i \in DOMAIN keys |-> [Name |-> keys[i], TypeHint |-> <<>>]]]

\* block.AddRow(row) for every map of the list, each value converted
withRows(block, items) ==
    [block EXCEPT !.Rows = @ \o [i \in DOMAIN items |->
                                    [key \in DOMAIN items[i] |-> interfaceToValue(items[i][key])]]]

\* the block FromJSON builds for one entry; keyOrders[i] is the order in which
\* the keys of the i-th map come out of `range`
fromJSONBlock(name, node, keyOrders) ==
    IF node.shape = "list"
    THEN withRows(IF Len(node.items) > 0 THEN withFields(NewBlock(W_table, name), keyOrders[1])
                  ELSE NewBlock(W_table, name),
                  node.items)
    ELSE withRows(withFields(NewBlock(W_object, name), keyOrders[1]), node.items)

RECURSIVE fromJSONFrom(_, _, _, _, _)
fromJSONFrom(data, nameOrder, keyOrders, i, d) ==
    IF i > Len(nameOrder) THEN d
    ELSE fromJSONFrom(data, nameOrder, keyOrders, i + 1,
             AddBlock(d, fromJSONBlock(nameOrder[i], data[nameOrder[i]],
                                       keyOrders[nameOrder[i]])))

\* FromJSON(jsonText) for the text of the tree data; nameOrder and keyOrders
\* are the orders the `range` loops over data and over its maps take
FromJSON(data, nameOrder, keyOrders) ==
    fromJSONFrom(data, nameOrder, keyOrders, 1, NewDocument)

FromDictOptions(autoRefs, smartOrder) == [AutoRefs |-> autoRefs, SmartOrder |-> smartOrder]
DefaultFromDictOptions == FromDictOptions(FALSE, FALSE)

priorityNames ==
    {<<"n", "a", "m", "e">>, <<"t", "i", "t", "l", "e">>, <<"l", "a", "b", "e", "l">>, <<"d", "e", "s", "c", "r", "i", "p", "t", "i", "o", "n">>, <<"d", "i", "s", "p", "l", "a", "y", "_", "n", "a", "m", "e">>, <<"f", "u", "l", "l", "_", "n", "a", "m", "e">>}

\* the fields of one priority class, in the order they came
fieldsWhere(fields, Test(_)) == SelectSeq(fields, Test)

smartOrderFields(fields) ==
    fieldsWhere(fields, LAMBDA f : ToLower(f) = <<"i", "d">>)
    \o fieldsWhere(fields, LAMBDA f : ToLower(f) # <<"i", "d">> /\ ToLower(f) \in priorityNames)
    \o fieldsWhere(fields, LAMBDA f : /\ ToLower(f) # <<"i", "d">>
                                      /\ ToLower(f) \notin priorityNames
                                      /\ ~HasSuffix(ToLower(f), <<"_", "i", "d">>))
    \o fieldsWhere(fields, LAMBDA f : /\ ToLower(f) # <<"i", "d">>
                                      /\ ToLower(f) \notin priorityNames
                                      /\ HasSuffix(ToLower(f), <<"_", "i", "d">>))

\* key[:len(key)-3]
refTypeOf(key) == SubSeq(key, 1, Len(key) - 3)

\* the keys FromDictWithOptions takes for foreign keys, each with its type
refFieldsOf(data, options) ==
    IF ~options.AutoRefs THEN <<>>
    ELSE LET firstKeys == UNION {DOMAIN data[n].items[1] :
                                    n \in {m \in DOMAIN data : /\ data[m].shape = "list"
                                                               /\ Len(data[m].items) > 0}}
             detected == {k \in firstKeys :
                             /\ HasSuffix(k, <<"_", "i", "d">>) /\ k # <<"i", "d">>
                             /\ \/ (refTypeOf(k) \o <<"s">>) \in DOMAIN data
                                \/ refTypeOf(k) \in DOMAIN data}
             graph == IF <<"e", "d", "g", "e", "s">> \in DOMAIN data /\ <<"n", "o", "d", "e", "s">> \in DOMAIN data
                      THEN {<<"s", "o", "u", "r", "c", "e">>, <<"t", "a", "r", "g", "e", "t">>} ELSE {}
         IN [k \in detected \cup graph |-> IF k \in graph THEN <<"n", "o", "d", "e">> ELSE refTypeOf(k)]

\* fmt.Sprintf("%v", refVal)
sprintfV(v) ==
    CASE v.go = "string" -> v.v
      [] v.go = "int64" -> FormatInt(v.v)
      [] v.go = "float64" -> IF v.v[2] = 0 THEN FormatInt(v.v[1]) ELSE FormatDecimal(v.v[1], v.v[2])

\* one cell of a table row: a Reference for a detected foreign key
fromDictCell(key, val, refFields) ==
    IF key \in DOMAIN refFields /\ val.go \in {"int64", "float64", "string"}
    THEN Ref(Reference(sprintfV(val), refFields[key], <<>>))
    ELSE interfaceToValue(val)

RECURSIVE fieldOrderFrom(_, _, _, _, _)
\* the keys of the rows in the order they are first met; j walks keyOrders[i]
fieldOrderFrom(items, keyOrders, i, j, fieldOrder) ==
    IF i > Len(items) THEN fieldOrder
    ELSE IF j > Len(keyOrders[i]) THEN fieldOrderFrom(items, keyOrders, i + 1, 1, fieldOrder)
    ELSE fieldOrderFrom(items, keyOrders, i, j + 1,
             IF \E k \in DOMAIN fieldOrder : fieldOrder[k] = keyOrders[i][j] THEN fieldOrder
             ELSE Append(fieldOrder, keyOrders[i][j]))

orderedFields(fields, options) == IF options.SmartOrder THEN smartOrderFields(fields) ELSE fields

\* the block FromDictWithOptions builds for a non-empty list or for a map
fromDictBlock(name, node, options, refFields, keyOrders) ==
    IF node.shape = "list"
    THEN [withFields(NewBlock(W_table, name),
                     orderedFields(fieldOrderFrom(node.items, keyOrders, 1, 1, <<>>), options))
             EXCEPT !.Rows = [i \in DOMAIN node.items |->
                                 [key \in DOMAIN node.items[i] |->
                                     fromDictCell(key, node.items[i][key], refFields)]]]
    ELSE withRows(withFields(NewBlock(W_object, name), orderedFields(keyOrders[1], options)),
                  node.items)

RECURSIVE fromDictFrom(_, _, _, _, _, _)
fromDictFrom(data, options, names, keyOrders, i, d) ==
    IF i > Len(names) THEN d
    ELSE fromDictFrom(data, options, names, keyOrders, i + 1,
             IF data[names[i]].shape = "list" /\ Len(data[names[i]].items) = 0 THEN d
             ELSE AddBlock(d, fromDictBlock(names[i], data[names[i]], options,
                                            refFieldsOf(data, options), keyOrders[names[i]])))

\* FromDictWithOptions(data, options); keyOrders are the orders the `range` loops
\* over the maps of data take
FromDictWithOptions(data, options, keyOrders) ==
    fromDictFrom(data, options, SortStrings(DOMAIN data), keyOrders, 1, NewDocument)

FromDict(data, keyOrders) == FromDictWithOptions(data, DefaultFromDictOptions, keyOrders)

(* ---- ISONL, the line-based format ---- *)
DumpsISONL(d) ==
    Join([i \in DOMAIN d.Order |->
             Join([r \in DOMAIN d.Blocks[d.Order[i]].Rows |->
                      d.Blocks[d.Order[i]].Kind \o <<".">> \o d.Blocks[d.Order[i]].Name
                      \o <<"|">> \o fieldHeader(d.Blocks[d.Order[i]].Fields, <<SP>>)
                      \o <<"|">> \o rowLine(d.Blocks[d.Order[i]].Rows[r],
                                            d.Blocks[d.Order[i]].Fields, <<SP>>)
                      \o <<NL>>], <<>>)], <<>>)

\* strings.SplitN(s, c, 3): cut at the first two occurrences of c
SplitN3(s, c) ==
    IF Len(SplitFirst(s, c)) = 1 THEN <<s>>
    ELSE <<SplitFirst(s, c)[1]>> \o SplitFirst(SplitFirst(s, c)[2], c)

\* fieldTokens := tokenizeLine(parts[1]); parseFieldDef of each
isonlFields(fieldTokens) == [i \in DOMAIN fieldTokens |-> parseFieldDef(fieldTokens[i])]

\* block, exists := doc.Get(name); a new block takes kind, name and the line's fields
isonlBlock(d, kind, name, fieldsPart) ==
    IF name \in DOMAIN d.Blocks THEN d.Blocks[name]
    ELSE [NewBlock(kind, name) EXCEPT !.Fields = isonlFields(tokenizeLine(fieldsPart))]

\* doc.AddBlock(block) for a new block, and block.AddRow(row) through the pointer
isonlAddRow(d, block, tokens) ==
    AddBlock(d, [block EXCEPT !.Rows = Append(@, rowFrom(tokens, block.Fields, 1, <<>>))])

\* parts: strings.SplitN(line, "|", 3), headerParts: strings.SplitN(parts[0], ".", 2)
isonlParts(d, parts, headerParts) ==
    IF Len(headerParts) # 2 THEN d
    ELSE isonlAddRow(d, isonlBlock(d, headerParts[1], headerParts[2], parts[2]),
                     tokenizeLine(parts[3]))

\* one turn of the loop of ParseISONL, line already trimmed
isonlLine(d, line) ==
    IF line = <<>> \/ HasPrefix(line, <<"#">>) THEN d
    ELSE IF Len(SplitN3(line, "|")) # 3 THEN d
    ELSE isonlParts(d, SplitN3(line, "|"), SplitFirst(SplitN3(line, "|")[1], "."))

RECURSIVE isonlLines(_, _, _)
isonlLines(lines, i, d) ==
    IF i > Len(lines) THEN d ELSE isonlLines(lines, i + 1, isonlLine(d, TrimSpace(lines[i])))

\* ParseISONL never returns an error: err is always "none"
ParseISONL(t) == [err |-> "none", doc |-> isonlLines(splitLines(t), 1, NewDocument)]

\* ISONLRecord{Kind, Name, Fields, Values}
ISONLRecord(kind, name, fields, values) ==
    [Kind |-> kind, Name |-> name, Fields |-> fields, Values |-> values]

\* what one scanned line makes ISONLStream send on the channel: nothing, or one record
streamParts(parts, headerParts) ==
    IF Len(headerParts) # 2 THEN <<>>
    ELSE <<ISONLRecord(headerParts[1], headerParts[2],
                       [i \in DOMAIN tokenizeLine(parts[2]) |->
                           parseFieldDef(tokenizeLine(parts[2])[i]).Name],
                       rowFrom(tokenizeLine(parts[3]), isonlFields(tokenizeLine(parts[2])),
                               1, <<>>))>>

\* one turn of the scanner loop of ISONLStream, line already trimmed
streamLine(line) ==
    IF line = <<>> \/ HasPrefix(line, <<"#">>) THEN <<>>
    ELSE IF Len(SplitN3(line, "|")) # 3 THEN <<>>
    ELSE streamParts(SplitN3(line, "|"), SplitFirst(SplitN3(line, "|")[1], "."))

(* ---- the channel of ISONLStream ---- *)
\* make(chan ISONLRecord, capacity): nothing buffered, not closed
makeChan == [buffer |-> <<>>, closed |-> 0]
\* ch <- record can proceed: the buffer has room
canSend(ch, capacity) == Len(ch.buffer) < capacity
\* a send that loses the record
chanSend_dropping(ch, record) == ch

\* ch <- record
chanSend(ch, record) == [ch EXCEPT !.buffer = Append(@, record)]
\* <-ch with a record buffered
chanReceive(ch) == [ch EXCEPT !.buffer = Tail(@)]
\* close(ch); closed counts the calls
chanClose(ch) == [ch EXCEPT !.closed = @ + 1]

(* ==================== JavaScript reference port (ison-js) ============== *)
\* a parse result: err = "none" and the value, or the error thrown
Ok(v) == [err |-> "none", v |-> v]
Throw(e) == [err |-> e, v |-> <<>>]
\* carry on with the value, or pass the thrown error up
Bind(r, F(_)) == IF r.err # "none" THEN r ELSE F(r.v)

\* new Reference(id, type = null); props: properties added to the object later
JS_Reference(id, hasType, type) ==
    [id |-> id, hasType |-> hasType, type |-> type, props |-> <<>>]

\* a JavaScript number: integral ones are what parseInt and parseFloat share
JS_Number(d) == IF d[2] = 0 THEN IntV(d[1]) ELSE Float(d)

\* a nested plain object built for a dot-path field
JS_Object(o) == [t |-> "Object", o |-> o]

JS_Reference_toISON(r) ==
    IF r.hasType /\ r.type # <<>> THEN <<":">> \o r.type \o <<":">> \o r.id
    ELSE <<":">> \o r.id

JS_Reference_isRelationship(r) == r.hasType /\ r.type = ToUpper(r.type)

JS_FieldInfo_parse(fieldStr) ==
    IF Contains(fieldStr, ":")
    THEN LET parts == SplitFirst(fieldStr, ":")
             typeHint == ToLower(parts[2])
         IN [name |-> parts[1], hasType |-> TRUE, type |-> typeHint,
             isComputed |-> typeHint = W_computed]
    ELSE [name |-> fieldStr, hasType |-> FALSE, type |-> <<>>, isComputed |-> FALSE]

RECURSIVE JS_skipWhitespace(_, _)
JS_skipWhitespace(line, pos) ==
    IF pos <= Len(line) /\ line[pos] \in {SP, TAB} THEN JS_skipWhitespace(line, pos + 1)
    ELSE pos

JS_ESCAPE_MAP == (DQ :> DQ) @@ (BS :> BS) @@ ("n" :> NL) @@ ("t" :> TAB) @@ ("r" :> CR)

RECURSIVE JS_readQuotedString(_, _, _)
\* pos: just after the opening quote; the value is <<string, position after it>>
JS_readQuotedString(line, pos, result) ==
    IF pos > Len(line) THEN Throw("UnterminatedString")
    ELSE IF line[pos] = DQ THEN Ok(<<result, pos + 1>>)
    ELSE IF line[pos] = BS
    THEN IF pos + 1 > Len(line) THEN Throw("UnexpectedEndAfterBackslash")
         ELSE LET escapeChar == line[pos + 1] IN
              JS_readQuotedString(line, pos + 2,
                  Append(result, IF escapeChar \in DOMAIN JS_ESCAPE_MAP
                                 THEN JS_ESCAPE_MAP[escapeChar] ELSE escapeChar))
    ELSE JS_readQuotedString(line, pos + 1, Append(result, line[pos]))

RECURSIVE JS_readUnquotedEnd(_, _)
JS_readUnquotedEnd(line, pos) ==
    IF pos <= Len(line) /\ line[pos] \notin {SP, TAB} THEN JS_readUnquotedEnd(line, pos + 1)
    ELSE pos

RECURSIVE JS_tokenizeFrom(_, _, _, _)
JS_tokenizeFrom(line, pos0, tokens, tokenInfo) ==
    LET pos == JS_skipWhitespace(line, pos0) IN
    IF pos > Len(line) THEN Ok([tokens |-> tokens, tokenInfo |-> tokenInfo])
    ELSE IF line[pos] = DQ
    THEN Bind(JS_readQuotedString(line, pos + 1, <<>>),
              LAMBDA q : JS_tokenizeFrom(line, q[2], Append(tokens, q[1]),
                                         Append(tokenInfo, TRUE)))
    ELSE JS_tokenizeFrom(line, JS_readUnquotedEnd(line, pos),
                         Append(tokens, SubSeq(line, pos, JS_readUnquotedEnd(line, pos) - 1)),
                         Append(tokenInfo, FALSE))

JS_tokenize(line) == JS_tokenizeFrom(line, 1, <<>>, <<>>)

JS_infer(token, wasQuoted) ==
    IF wasQuoted THEN String(token)
    ELSE IF token = W_true THEN Bool(TRUE)
    ELSE IF token = W_false THEN Bool(FALSE)
    ELSE IF token = W_null THEN Null
    ELSE IF IsIntSyntax(token, FALSE) THEN IntV(ParseIntText(token))
    ELSE IF IsDecimalPattern(token) THEN JS_Number(ParseDecimalText(token))
    ELSE IF HasPrefix(token, <<":">>) /\ Len(token) > 1 /\ ~Contains(token, CR)
    THEN IF Contains(Tail(token), ":")
         THEN Ref(JS_Reference(SplitFirst(Tail(token), ":")[2], TRUE,
                               SplitFirst(Tail(token), ":")[1]))
         ELSE Ref(JS_Reference(Tail(token), FALSE, <<>>))
    ELSE String(token)

RECURSIVE JS_setNestedValue(_, _, _)
\* obj: the object as a function from property names; parts: path.split('.').
\* Reading or creating a property of a primitive (or null) throws TypeError
\* in strict mode; a Reference is an object and takes the new property.
JS_setNestedValue(obj, parts, value) ==
    IF Len(parts) = 1 THEN Ok((parts[1] :> value) @@ obj)
    ELSE IF parts[1] \notin DOMAIN obj
    THEN Bind(JS_setNestedValue(<<>>, Tail(parts), value),
              LAMBDA o : Ok((parts[1] :> JS_Object(o)) @@ obj))
    ELSE IF obj[parts[1]].t = "Object"
    THEN Bind(JS_setNestedValue(obj[parts[1]].o, Tail(parts), value),
              LAMBDA o : Ok((parts[1] :> JS_Object(o)) @@ obj))
    ELSE IF obj[parts[1]].t = "Ref"
    THEN Bind(JS_setNestedValue(obj[parts[1]].r.props, Tail(parts), value),
              LAMBDA o : Ok((parts[1] :> Ref([obj[parts[1]].r EXCEPT !.props = o])) @@ obj))
    ELSE Throw("TypeError")

RECURSIVE JS_buildRow(_, _, _, _)
\* values[i] for i < values.length, null for the unfilled trailing fields
JS_buildRow(fields, values, i, row) ==
    IF i > Len(fields) THEN Ok(row)
    ELSE Bind(IF Contains(fields[i], ".")
              THEN JS_setNestedValue(row, Split(fields[i], "."),
                                     IF i <= Len(values) THEN values[i] ELSE Null)
              ELSE Ok((fields[i] :> (IF i <= Len(values) THEN values[i] ELSE Null)) @@ row),
              LAMBDA r : JS_buildRow(fields, values, i + 1, r))

JS_parseDataRow(fields, line) ==
    Bind(JS_tokenize(line),
         LAMBDA tk : JS_buildRow(fields,
                                 [i \in DOMAIN tk.tokens |->
                                     JS_infer(tk.tokens[i], tk.tokenInfo[i])],
                                 1, <<>>))

\* the line is blank or a '#' comment
JS_isEmptyOrComment(stripped) == stripped = <<>> \/ HasPrefix(stripped, <<"#">>)

RECURSIVE JS_skipEmptyAndComments(_, _)
JS_skipEmptyAndComments(lines, lineNum) ==
    IF lineNum <= Len(lines) /\ JS_isEmptyOrComment(TrimSpace(lines[lineNum]))
    THEN JS_skipEmptyAndComments(lines, lineNum + 1)
    ELSE lineNum

\* /^[a-zA-Z_][a-zA-Z0-9_-]*$/
JS_idPattern(s) ==
    /\ s # <<>>
    /\ IsLower(s[1]) \/ IsUpper(s[1]) \/ s[1] = "_"
    /\ \A i \in 2..Len(s) : IsLower(s[i]) \/ IsUpper(s[i]) \/ IsDigit(s[i]) \/ s[i] \in {"_", "-"}

\* parts: line.split('.')
JS_headerParts(parts) == Len(parts) = 2 /\ JS_idPattern(parts[1]) /\ JS_idPattern(parts[2])

JS_looksLikeHeader(line) == Contains(line, ".") /\ JS_headerParts(Split(line, "."))

\* one line of the loop after a '---' line, summaryLine its trimmed text
RECURSIVE JS_readSummary(_, _, _)
JS_summaryLine(lines, lineNum, summary, summaryLine) ==
    IF summaryLine # <<>> /\ ~HasPrefix(summaryLine, <<"#">>)
    THEN <<[has |-> TRUE, text |-> summaryLine], lineNum + 1>>
    ELSE IF summaryLine = <<>> THEN <<summary, lineNum>>
    ELSE JS_readSummary(lines, lineNum + 1, summary)

\* the loop after a '---' line: <<summary, lineNum>>
JS_readSummary(lines, lineNum, summary) ==
    IF lineNum > Len(lines) THEN <<summary, lineNum>>
    ELSE JS_summaryLine(lines, lineNum, summary, TrimSpace(lines[lineNum]))

RECURSIVE JS_readRows(_, _, _, _, _)
\* one turn of the data-row loop, stripped the trimmed current line
JS_rowLine(lines, lineNum, fields, rows, summary, stripped) ==
    IF stripped = <<>>
    THEN Ok([rows |-> rows, summary |-> summary, lineNum |-> lineNum])
    ELSE IF HasPrefix(stripped, <<"#">>)
    THEN JS_readRows(lines, lineNum + 1, fields, rows, summary)
    ELSE IF HasPrefix(stripped, W_dashes)
    THEN JS_readRows(lines, JS_readSummary(lines, lineNum + 1, summary)[2], fields, rows,
                     JS_readSummary(lines, lineNum + 1, summary)[1])
    ELSE IF /\ Contains(stripped, ".")
            /\ \A i \in DOMAIN stripped : ~IsWS(stripped[i])
            /\ JS_looksLikeHeader(stripped)
    THEN Ok([rows |-> rows, summary |-> summary, lineNum |-> lineNum])
    ELSE Bind(JS_parseDataRow(fields, lines[lineNum]),
              LAMBDA row : JS_readRows(lines, lineNum + 1, fields, Append(rows, row), summary))

JS_readRows(lines, lineNum, fields, rows, summary) ==
    IF lineNum > Len(lines)
    THEN Ok([rows |-> rows, summary |-> summary, lineNum |-> lineNum])
    ELSE JS_rowLine(lines, lineNum, fields, rows, summary, TrimSpace(lines[lineNum]))

\* the field line and the data rows of the block whose header gave kind, name
JS_parseFields(lines, lineNum, kind, name) ==
    IF lineNum > Len(lines) THEN Throw("MissingFieldDefinitions")
    ELSE Bind(JS_tokenize(lines[lineNum]),
              LAMBDA tk :
                  Bind(JS_readRows(lines, lineNum + 1,
                                   [i \in DOMAIN tk.tokens |->
                                       JS_FieldInfo_parse(tk.tokens[i]).name],
                                   <<>>, [has |-> FALSE, text |-> <<>>]),
                       LAMBDA rr :
                           Ok(<<[kind |-> kind, name |-> name,
                                 fields |-> [i \in DOMAIN tk.tokens |->
                                                JS_FieldInfo_parse(tk.tokens[i]).name],
                                 rows |-> rr.rows,
                                 fieldInfo |-> [i \in DOMAIN tk.tokens |->
                                                   JS_FieldInfo_parse(tk.tokens[i])],
                                 summary |-> rr.summary],
                                rr.lineNum>>)))

\* headerLine: the trimmed current line
JS_parseHeader(lines, lineNum0, headerLine) ==
    IF ~Contains(headerLine, ".") THEN Throw("InvalidHeader")
    ELSE JS_parseFields(lines, JS_skipEmptyAndComments(lines, lineNum0 + 1),
                        SplitFirst(headerLine, ".")[1], SplitFirst(headerLine, ".")[2])

\* lineNum: the header line; the value is <<block, lineNum after the block>>
JS_parseBlock(lines, lineNum0) == JS_parseHeader(lines, lineNum0, TrimSpace(lines[lineNum0]))

RECURSIVE JS_parseFrom(_, _, _)
\* lineNum: where _skipEmptyAndComments stopped
JS_parseNext(lines, lineNum, blocks) ==
    IF lineNum > Len(lines) THEN Ok([blocks |-> blocks])
    ELSE Bind(JS_parseBlock(lines, lineNum),
              LAMBDA b : JS_parseFrom(lines, b[2], Append(blocks, b[1])))

JS_parseFrom(lines, lineNum0, blocks) ==
    JS_parseNext(lines, JS_skipEmptyAndComments(lines, lineNum0), blocks)

\* what the caller of a parse gets: the Document, or the error thrown
Outcome(r) ==
    IF r.err # "none" THEN [err |-> r.err, doc |-> <<>>] ELSE [err |-> "none", doc |-> r.v]

\* loads(text)
JS_loads(t) == Outcome(JS_parseFrom(Split(t, NL), 1, <<>>))

JS_looksLikeNumber(s) == IsDecimalLiteral(TrimSpace(s))

JS_Escapes == (BS :> <<BS, BS>>) @@ (DQ :> <<BS, DQ>>) @@ (NL :> <<BS, "n">>)
              @@ (TAB :> <<BS, "t">>) @@ (CR :> <<BS, "r">>)

JS_quoteIfNeeded(s) ==
    IF s = <<>> THEN <<DQ, DQ>>
    ELSE IF \/ \E i \in DOMAIN s : s[i] \in {SP, TAB, DQ, NL}
            \/ s \in {W_true, W_false, W_null}
            \/ HasPrefix(s, <<":">>)
            \/ JS_looksLikeNumber(s)
    THEN <<DQ>> \o EscapeWith(s, JS_Escapes) \o <<DQ>>
    ELSE s

\* values a parsed or hand-built row holds; a nested object is never handed
\* to it for a parsed row (its JSON text is outside this model)
JS_valueToISON(value) ==
    CASE value.t = "Null" -> W_null
      [] value.t = "Bool" -> IF value.b THEN W_true ELSE W_false
      [] value.t = "Ref" -> JS_Reference_toISON(value.r)
      [] value.t = "Int" -> FormatInt(value.n)
      [] value.t = "Float" -> FormatDecimal(value.m, value.k)
      [] value.t = "String" -> JS_quoteIfNeeded(value.s)

RECURSIVE JS_getNestedValue(_, _)
\* obj: a function from property names; a missing step gives null
JS_getNestedValue(obj, parts) ==
    IF parts[1] \notin DOMAIN obj THEN Null
    ELSE LET current == obj[parts[1]] IN
         IF Len(parts) = 1 THEN current
         ELSE IF current.t = "Object" THEN JS_getNestedValue(current.o, Tail(parts))
         ELSE IF current.t = "Ref" THEN JS_getNestedValue(current.r.props, Tail(parts))
         ELSE Null

JS_rowValues(block, row) ==
    [i \in DOMAIN block.fields |->
        JS_valueToISON(JS_getNestedValue(row, Split(block.fields[i], ".")))]

RECURSIVE JS_maxWidth(_, _, _)
JS_maxWidth(cells, i, w) ==
    IF cells = <<>> THEN w ELSE JS_maxWidth(Tail(cells), i, Max(w, Len(Head(cells)[i])))

JS_calculateColumnWidths(block) ==
    LET cells == [r \in DOMAIN block.rows |-> JS_rowValues(block, block.rows[r])] IN
    [i \in DOMAIN block.fields |-> JS_maxWidth(cells, i, Len(block.fields[i]))]

JS_serializeBlock(block, alignColumns) ==
    LET header == block.kind \o <<".">> \o block.name
        fieldLine ==
            IF block.fieldInfo # <<>>
            THEN Join([i \in DOMAIN block.fieldInfo |->
                          LET fi == block.fieldInfo[i] IN
                          IF fi.hasType /\ fi.type # <<>> THEN fi.name \o <<":">> \o fi.type
                          ELSE fi.name], <<SP>>)
            ELSE Join(block.fields, <<SP>>)
        aligned == alignColumns /\ Len(block.rows) > 0
        colWidths == JS_calculateColumnWidths(block)
        rowLines == [r \in DOMAIN block.rows |->
                        LET values == JS_rowValues(block, block.rows[r]) IN
                        TrimRight(Join([i \in DOMAIN values |->
                                           IF aligned THEN PadEnd(values[i], colWidths[i])
                                           ELSE values[i]], <<SP>>))]
        summaryLines == IF block.summary.has /\ block.summary.text # <<>>
                        THEN <<W_dashes, block.summary.text>> ELSE <<>>
    IN Join(<<header, fieldLine>> \o rowLines \o summaryLines, <<NL>>)

\* dumps(doc, alignColumns = true)
JS_dumps(d, alignColumns) ==
    Join([i \in DOMAIN d.blocks |-> JS_serializeBlock(d.blocks[i], alignColumns)], <<NL, NL>>)

\* Block.toDict(): the node stored under the block's name; _tryParseJSON leaves
\* every string without brackets or braces as it is
JS_Block_toDict(block) ==
    IF block.kind = W_object /\ Len(block.rows) = 1 THEN MapNode(block.rows[1])
    ELSE ListNode(block.rows)

\* the index of the last block of that name: the one whose entry survives in
\* an object filled block by block
LastNamed(blocks, name) ==
    CHOOSE k \in DOMAIN blocks :
        blocks[k].name = name /\ \A j \in DOMAIN blocks : blocks[j].name = name => j <= k

\* Document.toDict(): Object.assign block by block, a later block of the same
\* name replacing the earlier one
JS_Document_toDict(d) ==
    [name \in {d.blocks[k].name : k \in DOMAIN d.blocks} |->
        JS_Block_toDict(d.blocks[LastNamed(d.blocks, name)])]

(* ---- the loops of ison-js, one turn at a time ---- *)
\* one turn of Parser.parse: a turn of _skipEmptyAndComments, or the header
\* line read by _parseBlock; stripped the trimmed current line
JS_parseLine_turn(c, stripped) ==
    IF JS_isEmptyOrComment(stripped) THEN MoveTo(c, "parse", c.pos + 1)
    ELSE IF ~Contains(stripped, ".") THEN Thrown(c, c.pos, "InvalidHeader")
    ELSE MoveTo(c, "fields", c.pos + 1)

JS_parseTurn(lines, c) ==
    IF c.pos > Len(lines) THEN MoveTo(c, "returned", c.pos)
    ELSE JS_parseLine_turn(c, TrimSpace(lines[c.pos]))

\* _parseBlock up to the field line: a turn of _skipEmptyAndComments, or the
\* field line tokenized
JS_fieldsTurn(lines, c) ==
    IF c.pos > Len(lines) THEN Thrown(c, c.pos, "MissingFieldDefinitions")
    ELSE IF JS_isEmptyOrComment(TrimSpace(lines[c.pos])) THEN MoveTo(c, "fields", c.pos + 1)
    ELSE IF JS_tokenize(lines[c.pos]).err # "none"
    THEN Thrown(c, c.pos, JS_tokenize(lines[c.pos]).err)
    ELSE Cursor("rows", c.pos + 1,
                [i \in DOMAIN JS_tokenize(lines[c.pos]).v.tokens |->
                    JS_FieldInfo_parse(JS_tokenize(lines[c.pos]).v.tokens[i]).name],
                c.err, FALSE)

\* one turn of the data-row loop, stripped the trimmed current line
JS_rowsLine(lines, c, stripped) ==
    IF stripped = <<>> THEN MoveTo(c, "parse", c.pos)
    ELSE IF HasPrefix(stripped, <<"#">>) THEN MoveTo(c, "rows", c.pos + 1)
    ELSE IF HasPrefix(stripped, W_dashes) THEN MoveTo(c, "summary", c.pos + 1)
    ELSE IF /\ Contains(stripped, ".")
            /\ \A i \in DOMAIN stripped : ~IsWS(stripped[i])
            /\ JS_looksLikeHeader(stripped)
    THEN Cursor("parse", c.pos, c.fields, c.err, TRUE)
    ELSE IF JS_parseDataRow(c.fields, lines[c.pos]).err # "none"
    THEN Thrown(c, c.pos, JS_parseDataRow(c.fields, lines[c.pos]).err)
    ELSE MoveTo(c, "rows", c.pos + 1)

JS_rowsTurn(lines, c) ==
    IF c.pos > Len(lines) THEN MoveTo(c, "parse", c.pos)
    ELSE JS_rowsLine(lines, c, TrimSpace(lines[c.pos]))

\* one turn of the loop after a '---' line, summaryLine the trimmed current line
JS_summaryLine_turn(c, summaryLine) ==
    IF summaryLine # <<>> /\ ~HasPrefix(summaryLine, <<"#">>) THEN MoveTo(c, "rows", c.pos + 1)
    ELSE IF summaryLine = <<>> THEN MoveTo(c, "rows", c.pos)
    ELSE MoveTo(c, "summary", c.pos + 1)

JS_summaryTurn(lines, c) ==
    IF c.pos > Len(lines) THEN MoveTo(c, "rows", c.pos)
    ELSE JS_summaryLine_turn(c, TrimSpace(lines[c.pos]))

(* ---- ISONL in ison-js ---- *)
JS_ISONLRecord(kind, name, fields, values) ==
    [kind |-> kind, name |-> name, fields |-> fields, values |-> values]

JS_toBlockKey(record) == record.kind \o <<".">> \o record.name

RECURSIVE JS_splitByPipeFrom(_, _, _, _, _)
JS_splitByPipeFrom(line, i, sections, current, inQuotes) ==
    IF i > Len(line) THEN Append(sections, TrimSpace(current))
    ELSE IF line[i] = DQ /\ (i = 1 \/ line[i - 1] # BS)
    THEN JS_splitByPipeFrom(line, i + 1, sections, Append(current, line[i]), ~inQuotes)
    ELSE IF line[i] = "|" /\ ~inQuotes
    THEN JS_splitByPipeFrom(line, i + 1, Append(sections, TrimSpace(current)), <<>>, inQuotes)
    ELSE JS_splitByPipeFrom(line, i + 1, sections, Append(current, line[i]), inQuotes)

JS_splitByPipe(line) == JS_splitByPipeFrom(line, 1, <<>>, <<>>, FALSE)

RECURSIVE JS_zipValues(_, _, _, _)
\* valuesDict[fields[i]] = i < typedValues.length ? typedValues[i] : null
JS_zipValues(fields, typedValues, i, valuesDict) ==
    IF i > Len(fields) THEN valuesDict
    ELSE JS_zipValues(fields, typedValues, i + 1,
                      (fields[i] :> (IF i <= Len(typedValues) THEN typedValues[i] ELSE Null))
                      @@ valuesDict)

\* the three sections of a line: the header is 'kind.name', the other two are tokenized
JS_parseSections(header, fieldsStr, valuesStr) ==
    IF ~Contains(header, ".") THEN Throw("InvalidISONLHeader")
    ELSE Bind(JS_tokenize(fieldsStr),
              LAMBDA ft :
                  Bind(JS_tokenize(valuesStr),
                       LAMBDA vt :
                           Ok(<<JS_ISONLRecord(
                                   SplitFirst(header, ".")[1], SplitFirst(header, ".")[2],
                                   ft.tokens,
                                   JS_zipValues(ft.tokens,
                                                [i \in DOMAIN vt.tokens |->
                                                    JS_infer(vt.tokens[i], vt.tokenInfo[i])],
                                                1, <<>>))>>)))

\* sections: _splitByPipe(line)
JS_parseSplit(sections) ==
    IF Len(sections) # 3 THEN Throw("NotThreeSections")
    ELSE JS_parseSections(sections[1], sections[2], sections[3])

\* parseLine(line): <<>> for the code's null, or <<record>>
JS_parseLine(line) ==
    IF TrimSpace(line) = <<>> \/ HasPrefix(TrimSpace(line), <<"#">>) THEN Ok(<<>>)
    ELSE JS_parseSplit(JS_splitByPipe(TrimSpace(line)))

RECURSIVE JS_parseLines(_, _, _)
JS_parseLines(lines, i, records) ==
    IF i > Len(lines) THEN Ok(records)
    ELSE Bind(JS_parseLine(lines[i]), LAMBDA r : JS_parseLines(lines, i + 1, records \o r))

JS_parseString(t) == JS_parseLines(Split(t, NL), 1, <<>>)

RECURSIVE JS_blockKeys(_, _, _)
\* the keys of blocksMap in insertion order
JS_blockKeys(records, i, keys) ==
    IF i > Len(records) THEN keys
    ELSE JS_blockKeys(records, i + 1,
                      IF JS_toBlockKey(records[i]) \in Range(keys) THEN keys
                      ELSE Append(keys, JS_toBlockKey(records[i])))

\* new Block(kind, name, recs[0].fields, recs.map(r => r.values))
JS_blockOfRecords(key, recs) ==
    [kind |-> SplitFirst(key, ".")[1], name |-> SplitFirst(key, ".")[2],
     fields |-> recs[1].fields, rows |-> [i \in DOMAIN recs |-> recs[i].values],
     fieldInfo |-> <<>>, summary |-> [has |-> FALSE, text |-> <<>>]]

\* keys: JS_blockKeys of the records
JS_blocksOfKeys(records, keys) ==
    [blocks |-> [k \in DOMAIN keys |->
                    JS_blockOfRecords(keys[k],
                        SelectSeq(records, LAMBDA r : JS_toBlockKey(r) = keys[k]))]]

JS_recordsToDocument(records) == JS_blocksOfKeys(records, JS_blockKeys(records, 1, <<>>))

\* loadsISONL(text)
JS_loadsISONL(t) ==
    Outcome(Bind(JS_parseString(t), LAMBDA records : Ok(JS_recordsToDocument(records))))

JS_ISONL_Escapes == JS_Escapes @@ ("|" :> <<BS, "|">>)

\* ISONLSerializer._quoteIfNeeded
JS_ISONL_quoteIfNeeded(s) ==
    IF s = <<>> THEN <<DQ, DQ>>
    ELSE IF \/ \E i \in DOMAIN s : s[i] \in {SP, TAB, DQ, NL, "|"}
            \/ s \in {W_true, W_false, W_null}
            \/ HasPrefix(s, <<":">>)
            \/ JS_looksLikeNumber(s)
    THEN <<DQ>> \o EscapeWith(s, JS_ISONL_Escapes) \o <<DQ>>
    ELSE s

\* a parsed row holds no nested object under a field's full name: row[field]
\* is undefined for a dot-path field, and undefined is written like null
JS_valueToISONL(value) ==
    IF value.t = "String" THEN JS_ISONL_quoteIfNeeded(value.s) ELSE JS_valueToISON(value)

\* ISONLSerializer.dumps(doc)
JS_dumpsISONL(d) ==
    Join([k \in DOMAIN d.blocks |->
             Join([r \in DOMAIN d.blocks[k].rows |->
                      d.blocks[k].kind \o <<".">> \o d.blocks[k].name \o <<"|">>
                      \o Join(d.blocks[k].fields, <<SP>>) \o <<"|">>
                      \o Join([j \in DOMAIN d.blocks[k].fields |->
                                  JS_valueToISONL(
                                      IF d.blocks[k].fields[j] \in DOMAIN d.blocks[k].rows[r]
                                      THEN d.blocks[k].rows[r][d.blocks[k].fields[j]]
                                      ELSE Null)], <<SP>>)],
                  <<NL>>)],
         <<NL>>)

(* ======================= TypeScript port (ison-ts) ===================== *)
\* new Reference(id, type?)
TS_Reference(id, hasType, type) == [id |-> id, hasType |-> hasType, type |-> type]

TS_Reference_isRelationship(r) ==
    /\ r.hasType /\ r.type # <<>>
    /\ r.type = ToUpper(r.type)
    /\ \A i \in DOMAIN r.type : IsUpper(r.type[i]) \/ r.type[i] = "_"

TS_Reference_toIson(r) ==
    IF r.hasType /\ r.type # <<>> THEN <<":">> \o r.type \o <<":">> \o r.id
    ELSE <<":">> \o r.id

RECURSIVE TS_lineEnd(_, _)
\* the position of the next "\n" at or after pos, Len(t) + 1 when there is none
TS_lineEnd(t, pos) == IF pos <= Len(t) /\ t[pos] # NL THEN TS_lineEnd(t, pos + 1) ELSE pos

\* readLine(): null at the end of the text, else the trimmed line and the new pos
TS_readLine(t, pos) ==
    IF pos > Len(t) THEN [isNull |-> TRUE, line |-> <<>>, pos |-> pos]
    ELSE LET end == TS_lineEnd(t, pos) IN
         [isNull |-> FALSE, line |-> TrimSpace(SubSeq(t, pos, end - 1)),
          pos |-> IF end <= Len(t) THEN end + 1 ELSE end]

\* peekLine(): readLine() with pos restored
TS_peekLine(t, pos) == TS_readLine(t, pos)

RECURSIVE TS_skipWhitespaceAndComments(_, _)
TS_skipWhitespaceAndComments(t, pos) ==
    IF pos > Len(t) THEN pos
    ELSE IF t[pos] \in {SP, TAB, CR, NL} THEN TS_skipWhitespaceAndComments(t, pos + 1)
    ELSE IF t[pos] = "#" THEN TS_skipWhitespaceAndComments(t, TS_lineEnd(t, pos))
    ELSE pos

\* skipEmptyLines() moves pos exactly as skipWhitespaceAndComments() does
TS_skipEmptyLines(t, pos) == TS_skipWhitespaceAndComments(t, pos)

RECURSIVE TS_findCommentFrom(_, _, _)
TS_findCommentFrom(line, i, inQuote) ==
    IF i > Len(line) THEN 0
    ELSE IF line[i] = DQ /\ (i = 1 \/ line[i - 1] # BS)
    THEN TS_findCommentFrom(line, i + 1, ~inQuote)
    ELSE IF line[i] = "#" /\ ~inQuote THEN i
    ELSE TS_findCommentFrom(line, i + 1, inQuote)

\* index of the '#' that starts an inline comment, 0 for the code's -1
TS_findCommentStart(line) == TS_findCommentFrom(line, 1, FALSE)

RECURSIVE TS_parseQuotedFrom(_, _, _)
TS_parseQuotedFrom(line, i, result) ==
    IF i > Len(line) THEN Throw("UnterminatedString")
    ELSE IF line[i] = BS
    THEN IF i + 1 <= Len(line)
         THEN LET next == line[i + 1] IN
              TS_parseQuotedFrom(line, i + 2,
                  Append(result, CASE next = "n" -> NL [] next = "t" -> TAB
                                   [] next = "r" -> CR [] OTHER -> next))
         ELSE TS_parseQuotedFrom(line, i + 1, Append(result, BS))
    ELSE IF line[i] = DQ THEN Ok(<<result, i + 1>>)
    ELSE TS_parseQuotedFrom(line, i + 1, Append(result, line[i]))

\* start: the opening quote
TS_parseQuotedString(line, start) == TS_parseQuotedFrom(line, start + 1, <<>>)

RECURSIVE TS_tokenizeFrom(_, _, _)
TS_tokenizeFrom(line, i0, tokens) ==
    LET i == JS_skipWhitespace(line, i0) IN
    IF i > Len(line) THEN Ok(tokens)
    ELSE IF line[i] = DQ
    THEN Bind(TS_parseQuotedString(line, i),
              LAMBDA q : TS_tokenizeFrom(line, q[2], Append(tokens, q[1])))
    ELSE TS_tokenizeFrom(line, JS_readUnquotedEnd(line, i),
                         Append(tokens, SubSeq(line, i, JS_readUnquotedEnd(line, i) - 1)))

\* commentIndex: findCommentStart(line), 0 for the code's -1
TS_stripComment(line, commentIndex) ==
    IF commentIndex # 0 THEN SubSeq(line, 1, commentIndex - 1) ELSE line

TS_tokenizeLine(line) ==
    TS_tokenizeFrom(TS_stripComment(line, TS_findCommentStart(line)), 1, <<>>)

\* parts: token.substring(1).split(":")
TS_referenceOf(parts) ==
    IF Len(parts) = 1 THEN Ok(Ref(TS_Reference(parts[1], FALSE, <<>>)))
    ELSE IF Len(parts) = 2 THEN Ok(Ref(TS_Reference(parts[2], TRUE, parts[1])))
    ELSE Throw("InvalidReference")

TS_parseReference(token) == TS_referenceOf(Split(Tail(token), ":"))

TS_parseValue(token) ==
    IF token = W_null \/ token = <<"~">> THEN Ok(Null)
    ELSE IF token = W_true THEN Ok(Bool(TRUE))
    ELSE IF token = W_false THEN Ok(Bool(FALSE))
    ELSE IF HasPrefix(token, <<":">>) THEN TS_parseReference(token)
    ELSE IF IsIntSyntax(token, FALSE) THEN Ok(IntV(ParseIntText(token)))
    ELSE IF IsDecimalPattern(token) THEN Ok(JS_Number(ParseDecimalText(token)))
    ELSE Ok(String(token))

RECURSIVE TS_buildRow(_, _, _, _)
\* for (i = 0; i < fields.length && i < values.length; i++) row[fields[i]] = ...
TS_buildRow(fields, values, i, row) ==
    IF i > Len(fields) \/ i > Len(values) THEN Ok(row)
    ELSE Bind(TS_parseValue(values[i]),
              LAMBDA v : TS_buildRow(fields, values, i + 1, (fields[i] :> v) @@ row))

\* /^[a-z]+\./
TS_startsBlock(line) ==
    \E i \in 2..Len(line) : line[i] = "." /\ \A j \in 1..(i - 1) : IsLower(line[j])

\* block.rows.push(row), or block.summaryRows.push(row) after a '---' line
TS_pushRow(block, inSummary, row) ==
    IF inSummary THEN [block EXCEPT !.summaryRows = Append(@, row)]
    ELSE [block EXCEPT !.rows = Append(@, row)]

RECURSIVE TS_readRows(_, _, _, _)
\* one turn of the data-row loop, pk what peekLine() returned
TS_rowLine(t, pos, block, inSummary, pk) ==
    IF pk.line = <<>> \/ TS_startsBlock(pk.line) THEN Ok(<<block, pos>>)
    ELSE IF HasPrefix(pk.line, <<"#">>) THEN TS_readRows(t, pk.pos, block, inSummary)
    ELSE IF TrimSpace(pk.line) = W_dashes THEN TS_readRows(t, pk.pos, block, TRUE)
    ELSE Bind(TS_tokenizeLine(pk.line),
              LAMBDA values :
                  IF Len(values) = 0 THEN Ok(<<block, pk.pos>>)
                  ELSE Bind(TS_buildRow(block.fields, values, 1, <<>>),
                            LAMBDA row : TS_readRows(t, pk.pos,
                                                     TS_pushRow(block, inSummary, row),
                                                     inSummary)))

TS_readRows(t, pos, block, inSummary) ==
    IF pos > Len(t) THEN Ok(<<block, pos>>)
    ELSE TS_rowLine(t, pos, block, inSummary, TS_peekLine(t, pos))

\* colonIndex: token.indexOf(":"), 0 for the code's -1
TS_fieldInfoAt(token, colonIndex) ==
    IF colonIndex # 0
    THEN [name |-> SubSeq(token, 1, colonIndex - 1), hasType |-> TRUE,
          type |-> SubSeq(token, colonIndex + 1, Len(token)),
          isComputed |-> SubSeq(token, colonIndex + 1, Len(token)) = W_computed]
    ELSE [name |-> token, hasType |-> FALSE, type |-> <<>>, isComputed |-> FALSE]

TS_fieldInfo(token) == TS_fieldInfoAt(token, IndexOf(token, ":"))

\* new Block(kind, name)
TS_Block(kind, name) ==
    [kind |-> kind, name |-> name, rows |-> <<>>, fields |-> <<>>,
     fieldInfo |-> <<>>, summaryRows |-> <<>>]

\* the field definitions and the data rows; fl what readLine() returned
TS_parseFields(t, block, fl) ==
    IF fl.isNull \/ fl.line = <<>> THEN Ok(<<TRUE, block, fl.pos>>)
    ELSE Bind(TS_tokenizeLine(fl.line),
              LAMBDA fieldTokens :
                  Bind(TS_readRows(t, fl.pos,
                           [block EXCEPT
                               !.fieldInfo = [i \in DOMAIN fieldTokens |->
                                                 TS_fieldInfo(fieldTokens[i])],
                               !.fields = [i \in DOMAIN fieldTokens |->
                                              TS_fieldInfo(fieldTokens[i]).name]],
                           FALSE),
                       LAMBDA rr : Ok(<<TRUE, rr[1], rr[2]>>)))

\* kind, name: the trimmed halves of the header line around its first '.'
TS_parseNamed(t, pos, kind, name) ==
    IF kind = <<>> \/ name = <<>> THEN Throw("InvalidHeader")
    ELSE TS_parseFields(t, TS_Block(kind, name), TS_readLine(t, TS_skipEmptyLines(t, pos)))

\* hl what readLine() returned for the header, dotIndex 0 for the code's -1
TS_parseHeader(t, hl, dotIndex) ==
    IF hl.isNull \/ hl.line = <<>> \/ HasPrefix(hl.line, <<"#">>)
    THEN Ok(<<FALSE, TS_Block(<<>>, <<>>), hl.pos>>)
    ELSE IF dotIndex = 0 THEN Throw("InvalidHeader")
    ELSE TS_parseNamed(t, hl.pos, TrimSpace(SubSeq(hl.line, 1, dotIndex - 1)),
                       TrimSpace(SubSeq(hl.line, dotIndex + 1, Len(hl.line))))

\* the value is <<hasBlock, block, pos>>: parseBlock() returns null without a block
TS_parseBlockAt(t, hl) == TS_parseHeader(t, hl, IndexOf(hl.line, "."))

TS_parseBlock(t, pos0) == TS_parseBlockAt(t, TS_readLine(t, pos0))

RECURSIVE TS_parseFrom(_, _, _)
TS_parseFrom(t, pos, blocks) ==
    IF pos > Len(t) THEN Ok([blocks |-> blocks])
    ELSE Bind(TS_parseBlock(t, pos),
              LAMBDA b : TS_parseFrom(t, TS_skipWhitespaceAndComments(t, b[3]),
                                      IF b[1] THEN Append(blocks, b[2]) ELSE blocks))

\* parse(text)
TS_parse(t) == Outcome(TS_parseFrom(t, TS_skipWhitespaceAndComments(t, 1), <<>>))

\* /^-?\d+(\.\d+)?$/
TS_numberPattern(s) == IsIntSyntax(s, FALSE) \/ IsDecimalPattern(s)

TS_serializeString(s) ==
    IF \/ \E i \in DOMAIN s : s[i] \in {SP, TAB, NL, DQ, BS}
       \/ s \in {W_true, W_false, W_null}
       \/ HasPrefix(s, <<":">>)
       \/ TS_numberPattern(s)
    THEN <<DQ>> \o EscapeWith(s, JS_Escapes) \o <<DQ>>
    ELSE s

TS_serializeValue(value) ==
    CASE value.t = "Null" -> W_null
      [] value.t = "Bool" -> IF value.b THEN W_true ELSE W_false
      [] value.t = "Int" -> FormatInt(value.n)
      [] value.t = "Float" -> FormatDecimal(value.m, value.k)
      [] value.t = "Ref" -> TS_Reference_toIson(value.r)
      [] value.t = "String" -> TS_serializeString(value.s)

\* row[field]: undefined (serialized like null) when the row lacks the key
TS_cell(row, field) == TS_serializeValue(IF field \in DOMAIN row THEN row[field] ELSE Null)

TS_calculateWidths(block) ==
    LET all == block.rows \o block.summaryRows
        cells == [r \in DOMAIN all |-> [i \in DOMAIN block.fields |->
                                           TS_cell(all[r], block.fields[i])]]
    IN [i \in DOMAIN block.fields |-> JS_maxWidth(cells, i, Len(block.fields[i]))]

\* padded cells written one after the other, the separator left out
TS_serializeRow_unseparated(row, fields, widths, alignColumns) ==
    Join([i \in DOMAIN fields |->
             IF alignColumns /\ Len(widths) > 0 /\ i < Len(fields)
             THEN PadEnd(TS_cell(row, fields[i]), widths[i])
             ELSE TS_cell(row, fields[i])], IF alignColumns THEN <<>> ELSE <<SP>>)

TS_serializeRow(row, fields, widths, alignColumns) ==
    Join([i \in DOMAIN fields |->
             IF alignColumns /\ Len(widths) > 0 /\ i < Len(fields)
             THEN PadEnd(TS_cell(row, fields[i]), widths[i])
             ELSE TS_cell(row, fields[i])], <<SP>>)

TS_serializeBlock(block, alignColumns) ==
    LET fieldDefs == Join([i \in DOMAIN block.fieldInfo |->
                              LET fi == block.fieldInfo[i] IN
                              IF fi.hasType /\ fi.type # <<>> THEN fi.name \o <<":">> \o fi.type
                              ELSE fi.name], <<SP>>)
        widths == IF alignColumns THEN TS_calculateWidths(block) ELSE <<>>
        rowLines == [r \in DOMAIN block.rows |->
                        TS_serializeRow(block.rows[r], block.fields, widths, alignColumns)]
        summaryLines ==
            IF Len(block.summaryRows) > 0
            THEN <<W_dashes>> \o [r \in DOMAIN block.summaryRows |->
                     TS_serializeRow(block.summaryRows[r], block.fields, widths, alignColumns)]
            ELSE <<>>
    IN Join(<<block.kind \o <<".">> \o block.name, fieldDefs>> \o rowLines \o summaryLines,
            <<NL>>)

\* dumps(doc, alignColumns = true)
TS_dumps(d, alignColumns) ==
    Join([i \in DOMAIN d.blocks |-> TS_serializeBlock(d.blocks[i], alignColumns)], <<NL, NL>>)

\* the entry of a row in Document.toDict: a Reference becomes {$ref, type}
TS_toDictValue(value) ==
    IF value.t = "Ref"
    THEN [t |-> "Object", o |-> [ref |-> value.r.id, hasType |-> value.r.hasType,
                                 type |-> value.r.type]]
    ELSE value

\* block.rows.map(row => obj)
TS_toDictRows(rows) ==
    ListNode([i \in DOMAIN rows |-> [key \in DOMAIN rows[i] |-> TS_toDictValue(rows[i][key])]])

\* Document.toDict(): result[block.name] = the list of the block's rows, a
\* later block of the same name replacing the earlier one
TS_Document_toDict(d) ==
    [name \in {d.blocks[k].name : k \in DOMAIN d.blocks} |->
        TS_toDictRows(d.blocks[LastNamed(d.blocks, name)].rows)]

(* ---- the loops of ison-ts, one turn at a time ---- *)
\* parseBlock after the header line named a block: skipEmptyLines(), then fl is
\* what readLine() returned for the field line
TS_fieldsTurn(t, c, fl) ==
    IF fl.isNull \/ fl.line = <<>>
    THEN MoveTo(c, "parse", TS_skipWhitespaceAndComments(t, fl.pos))
    ELSE IF TS_tokenizeLine(fl.line).err # "none"
    THEN Thrown(c, fl.pos, TS_tokenizeLine(fl.line).err)
    ELSE Cursor("rows", fl.pos,
                [i \in DOMAIN TS_tokenizeLine(fl.line).v |->
                    TS_fieldInfo(TS_tokenizeLine(fl.line).v[i]).name],
                c.err, FALSE)

\* the header of parseBlock, hl what readLine() returned, dotIndex 0 for -1
TS_headerTurn(t, c, hl, dotIndex) ==
    IF hl.isNull \/ hl.line = <<>> \/ HasPrefix(hl.line, <<"#">>)
    THEN MoveTo(c, "parse", TS_skipWhitespaceAndComments(t, hl.pos))
    ELSE IF dotIndex = 0 THEN Thrown(c, hl.pos, "InvalidHeader")
    ELSE IF \/ TrimSpace(SubSeq(hl.line, 1, dotIndex - 1)) = <<>>
            \/ TrimSpace(SubSeq(hl.line, dotIndex + 1, Len(hl.line))) = <<>>
    THEN Thrown(c, hl.pos, "InvalidHeader")
    ELSE TS_fieldsTurn(t, c, TS_readLine(t, TS_skipEmptyLines(t, hl.pos)))

\* one turn of the loop of parse(): parseBlock() up to its row loop
TS_parseTurn(t, c) ==
    IF c.pos > Len(t) THEN MoveTo(c, "returned", c.pos)
    ELSE TS_headerTurn(t, c, TS_readLine(t, c.pos), IndexOf(TS_readLine(t, c.pos).line, "."))

\* a data line tokenized into values
TS_rowsValues(t, c, pk, values) ==
    IF values.err # "none" THEN Thrown(c, pk.pos, values.err)
    ELSE IF Len(values.v) = 0 THEN MoveTo(c, "parse", TS_skipWhitespaceAndComments(t, pk.pos))
    ELSE IF TS_buildRow(c.fields, values.v, 1, <<>>).err # "none"
    THEN Thrown(c, pk.pos, TS_buildRow(c.fields, values.v, 1, <<>>).err)
    ELSE MoveTo(c, "rows", pk.pos)

\* one turn of the data-row loop, pk what peekLine() returned
TS_rowsLine(t, c, pk) ==
    IF pk.line = <<>>
    THEN MoveTo(c, "parse", TS_skipWhitespaceAndComments(t, c.pos))
    ELSE IF TS_startsBlock(pk.line)
    THEN Cursor("parse", TS_skipWhitespaceAndComments(t, c.pos), c.fields, c.err, TRUE)
    ELSE IF HasPrefix(pk.line, <<"#">>) THEN MoveTo(c, "rows", pk.pos)
    ELSE IF TrimSpace(pk.line) = W_dashes THEN MoveTo(c, "rows", pk.pos)
    ELSE TS_rowsValues(t, c, pk, TS_tokenizeLine(pk.line))

TS_rowsTurn(t, c) ==
    IF c.pos > Len(t) THEN MoveTo(c, "parse", TS_skipWhitespaceAndComments(t, c.pos))
    ELSE TS_rowsLine(t, c, TS_peekLine(t, c.pos))

(* ---- ISONL in ison-ts ---- *)
RECURSIVE TS_ISONL_quotedFrom(_, _, _)
\* the quoted branch of tokenizeValues: no error at the end of the line
TS_ISONL_quotedFrom(line, i, result) ==
    IF i > Len(line) \/ line[i] = DQ THEN <<result, i + 1>>
    ELSE IF line[i] = BS /\ i + 1 <= Len(line)
    THEN TS_ISONL_quotedFrom(line, i + 2,
             Append(result, CASE line[i + 1] = "n" -> NL [] line[i + 1] = "t" -> TAB
                              [] line[i + 1] = "r" -> CR [] OTHER -> line[i + 1]))
    ELSE TS_ISONL_quotedFrom(line, i + 1, Append(result, line[i]))

RECURSIVE TS_ISONL_tokenizeFrom(_, _, _)
TS_ISONL_tokenizeFrom(line, i0, tokens) ==
    LET i == JS_skipWhitespace(line, i0) IN
    IF i > Len(line) THEN tokens
    ELSE IF line[i] = DQ
    THEN TS_ISONL_tokenizeFrom(line, TS_ISONL_quotedFrom(line, i + 1, <<>>)[2],
                               Append(tokens, TS_ISONL_quotedFrom(line, i + 1, <<>>)[1]))
    ELSE TS_ISONL_tokenizeFrom(line, JS_readUnquotedEnd(line, i),
                               Append(tokens, SubSeq(line, i, JS_readUnquotedEnd(line, i) - 1)))

\* ISONLParser.tokenizeValues
TS_ISONL_tokenizeValues(line) == TS_ISONL_tokenizeFrom(line, 1, <<>>)

\* ISONLParser.parseValue; parts of a reference beyond the second are dropped
TS_ISONL_parseValue(token) ==
    IF token = W_null \/ token = <<"~">> THEN Null
    ELSE IF token = W_true THEN Bool(TRUE)
    ELSE IF token = W_false THEN Bool(FALSE)
    ELSE IF HasPrefix(token, <<":">>)
    THEN (IF Len(Split(Tail(token), ":")) = 1
          THEN Ref(TS_Reference(Split(Tail(token), ":")[1], FALSE, <<>>))
          ELSE Ref(TS_Reference(Split(Tail(token), ":")[2], TRUE, Split(Tail(token), ":")[1])))
    ELSE IF IsIntSyntax(token, FALSE) THEN IntV(ParseIntText(token))
    ELSE IF IsDecimalPattern(token) THEN JS_Number(ParseDecimalText(token))
    ELSE String(token)

RECURSIVE TS_splitSpaces(_, _, _)
\* s.split(/\s+/): cut at every run of whitespace
TS_splitSpaces(s, i, cur) ==
    IF i > Len(s) THEN <<cur>>
    ELSE IF IsWS(s[i])
    THEN (IF i > 1 /\ IsWS(s[i - 1]) THEN TS_splitSpaces(s, i + 1, cur)
          ELSE <<cur>> \o TS_splitSpaces(s, i + 1, <<>>))
    ELSE TS_splitSpaces(s, i + 1, Append(cur, s[i]))

\* a new Block(kind, name) with the fields of fieldsPart.trim().split(/\s+/)
TS_ISONL_newBlock(kind, name, fields) ==
    [TS_Block(kind, name) EXCEPT
        !.fields = [i \in DOMAIN fields |-> TS_fieldInfo(fields[i]).name],
        !.fieldInfo = [i \in DOMAIN fields |-> TS_fieldInfo(fields[i])]]

RECURSIVE TS_ISONL_row(_, _, _, _)
\* for (i = 0; i < block.fields.length && i < values.length; i++)
TS_ISONL_row(fields, values, i, row) ==
    IF i > Len(fields) \/ i > Len(values) THEN row
    ELSE TS_ISONL_row(fields, values, i + 1,
                      (fields[i] :> TS_ISONL_parseValue(values[i])) @@ row)

\* blocks: doc.blocks, in which blockMap finds the block of a key
TS_ISONL_blockIndex(blocks, kind, name) ==
    IF \E k \in DOMAIN blocks : blocks[k].kind = kind /\ blocks[k].name = name
    THEN CHOOSE k \in DOMAIN blocks : blocks[k].kind = kind /\ blocks[k].name = name
    ELSE 0

\* block.rows.push(row) on the block at index k
TS_ISONL_pushRow(blocks, k, valuesPart) ==
    [blocks EXCEPT ![k].rows =
        Append(@, TS_ISONL_row(blocks[k].fields, TS_ISONL_tokenizeValues(valuesPart), 1, <<>>))]

\* parts: trimmed.split("|"), dotIndex: header.indexOf("."), 0 for the code's -1
TS_ISONL_parts(blocks, parts, dotIndex) ==
    IF dotIndex = 0 THEN Throw("InvalidISONLHeader")
    ELSE IF TS_ISONL_blockIndex(blocks, SubSeq(parts[1], 1, dotIndex - 1),
                                SubSeq(parts[1], dotIndex + 1, Len(parts[1]))) = 0
    THEN Ok(TS_ISONL_pushRow(
                Append(blocks,
                       TS_ISONL_newBlock(SubSeq(parts[1], 1, dotIndex - 1),
                                         SubSeq(parts[1], dotIndex + 1, Len(parts[1])),
                                         TS_splitSpaces(TrimSpace(parts[2]), 1, <<>>))),
                Len(blocks) + 1, parts[3]))
    ELSE Ok(TS_ISONL_pushRow(blocks,
                TS_ISONL_blockIndex(blocks, SubSeq(parts[1], 1, dotIndex - 1),
                                    SubSeq(parts[1], dotIndex + 1, Len(parts[1]))),
                parts[3]))

\* one turn of the loop of ISONLParser.parse
TS_ISONL_line(blocks, trimmed) ==
    IF trimmed = <<>> \/ HasPrefix(trimmed, <<"#">>) THEN Ok(blocks)
    ELSE IF Len(Split(trimmed, "|")) # 3 THEN Throw("NotThreeSections")
    ELSE TS_ISONL_parts(blocks, Split(trimmed, "|"), IndexOf(Split(trimmed, "|")[1], "."))

RECURSIVE TS_ISONL_lines(_, _, _)
TS_ISONL_lines(lines, i, blocks) ==
    IF i > Len(lines) THEN Ok([blocks |-> blocks])
    ELSE Bind(TS_ISONL_line(blocks, TrimSpace(lines[i])),
              LAMBDA b : TS_ISONL_lines(lines, i + 1, b))

\* ISONLParser.parse(text)
TS_ISONL_parse(t) == Outcome(TS_ISONL_lines(Split(t, NL), 1, <<>>))

TS_ISONL_Escapes == (BS :> <<BS, BS>>) @@ (DQ :> <<BS, DQ>>) @@ (NL :> <<BS, "n">>)
                    @@ (TAB :> <<BS, "t">>)

\* ISONLSerializer.serializeValue
TS_ISONL_serializeValue(value) ==
    IF value.t # "String" THEN TS_serializeValue(value)
    ELSE IF \/ \E i \in DOMAIN value.s : value.s[i] \in {SP, TAB, "|", NL, DQ}
            \/ value.s \in {W_true, W_false, W_null}
            \/ HasPrefix(value.s, <<":">>)
            \/ TS_numberPattern(value.s)
    THEN <<DQ>> \o EscapeWith(value.s, TS_ISONL_Escapes) \o <<DQ>>
    ELSE value.s

\* ISONLSerializer.serialize(doc)
TS_ISONL_serialize(d) ==
    Join([k \in DOMAIN d.blocks |->
             Join([r \in DOMAIN d.blocks[k].rows |->
                      d.blocks[k].kind \o <<".">> \o d.blocks[k].name \o <<"|">>
                      \o Join([j \in DOMAIN d.blocks[k].fieldInfo |->
                                  IF d.blocks[k].fieldInfo[j].type # <<>>
                                  THEN d.blocks[k].fieldInfo[j].name \o <<":">>
                                       \o d.blocks[k].fieldInfo[j].type
                                  ELSE d.blocks[k].fieldInfo[j].name], <<SP>>)
                      \o <<"|">>
                      \o Join([j \in DOMAIN d.blocks[k].fields |->
                                  TS_ISONL_serializeValue(
                                      IF d.blocks[k].fields[j] \in DOMAIN d.blocks[k].rows[r]
                                      THEN d.blocks[k].rows[r][d.blocks[k].fields[j]]
                                      ELSE Null)], <<SP>>)],
                  <<NL>>)],
         <<NL>>)

(* ============================ the three ports ========================== *)
Ports == {"go", "js", "ts"}

\* parse(text) of the port: [err, doc]
ParseText(p, t) ==
    CASE p = "go" -> Parse(t)
      [] p = "js" -> JS_loads(t)
      [] p = "ts" -> TS_parse(t)

\* serialize(doc, options) of the port
Serialize(p, d, o) ==
    CASE p = "go" -> DumpsWithOptions(d, o)
      [] p = "js" -> JS_dumps(d, o.AlignColumns)
      [] p = "ts" -> TS_dumps(d, o.AlignColumns)

\* what each port's dumps() uses when the caller passes no option
DefaultOptions(p) ==
    IF p = "go" THEN DefaultDumpsOptions ELSE [AlignColumns |-> TRUE, Delimiter |-> <<SP>>]

\* the options a caller may pass to the port's serializer
OptionsOf(p) ==
    IF p = "go" THEN [AlignColumns : BOOLEAN, Delimiter : {<<SP>>, <<TAB>>, <<",">>}]
    ELSE [AlignColumns : BOOLEAN, Delimiter : {<<SP>>}]

\* the port's serializer applied to one string value
SerializeString(p, s) ==
    CASE p = "go" -> ValueToISON(String(s))
      [] p = "js" -> JS_valueToISON(String(s))
      [] p = "ts" -> TS_serializeValue(String(s))

\* the port's batch ISONL parser: [err, doc]
ParseISONLText(p, t) ==
    CASE p = "go" -> ParseISONL(t)
      [] p = "js" -> JS_loadsISONL(t)
      [] p = "ts" -> TS_ISONL_parse(t)

\* the port's ISONL serializer
SerializeISONL(p, d) ==
    CASE p = "go" -> DumpsISONL(d)
      [] p = "js" -> JS_dumpsISONL(d)
      [] p = "ts" -> TS_ISONL_serialize(d)

\* the ports with a streaming reader: ISONLStream and isonlStream
StreamPorts == {"go", "js"}

\* the lines the streaming reader sees: bufio.Scanner's, or the caller's text.split('\n')
StreamLines(p, t) == IF p = "go" THEN splitLines(t) ELSE Split(t, NL)

\* the records one line makes the streaming reader yield, or the error it throws
StreamRecords(p, line) ==
    IF p = "go" THEN Ok(streamLine(TrimSpace(line))) ELSE JS_parseLine(line)

\* the generic tree of a Document: Document.ToJSON's map, Document.toDict()
TreeOf(p, d) ==
    CASE p = "go" -> ToJSON(d)
      [] p = "js" -> JS_Document_toDict(d)
      [] p = "ts" -> TS_Document_toDict(d)

\* the block whose rows the tree shows under the name
BlockNamed(p, d, name) ==
    IF p = "go" THEN d.Blocks[name] ELSE d.blocks[LastNamed(d.blocks, name)]

\* the token the port's serializer writes for one value
SerializeValue(p, v) ==
    CASE p = "go" -> ValueToISON(v)
      [] p = "js" -> JS_valueToISON(v)
      [] p = "ts" -> TS_serializeValue(v)

\* the summary a caller reads from a block: Block.SummaryRow, block.summary
\* (the text of the line, as ison-js keeps it) or block.summaryRows
SummaryOf(p, b) ==
    CASE p = "go" -> b.SummaryRow
      [] p = "js" -> IF b.summary.has THEN <<b.summary.text>> ELSE <<>>
      [] p = "ts" -> b.summaryRows

(* ---- what a caller reads from a Document, port by port ---- *)
BlocksOf(p, d) ==
    IF p = "go" THEN [i \in DOMAIN d.Order |-> d.Blocks[d.Order[i]]] ELSE d.blocks
KindOf(p, b) == IF p = "go" THEN b.Kind ELSE b.kind
NameOf(p, b) == IF p = "go" THEN b.Name ELSE b.name
RowsOf(p, b) == IF p = "go" THEN b.Rows ELSE b.rows
FieldNamesOf(p, b) ==
    IF p = "go" THEN [j \in DOMAIN b.Fields |-> b.Fields[j].Name] ELSE b.fields
\* Block.getFieldType(fieldName): the type of the first fieldInfo entry of that
\* name, <<>> for the code's null
JS_getFieldType(b, fieldName) ==
    IF \E i \in DOMAIN b.fieldInfo : b.fieldInfo[i].name = fieldName
    THEN LET i == CHOOSE i \in DOMAIN b.fieldInfo :
                      /\ b.fieldInfo[i].name = fieldName
                      /\ \A j \in 1..(i - 1) : b.fieldInfo[j].name # fieldName
         IN IF b.fieldInfo[i].hasType THEN b.fieldInfo[i].type ELSE <<>>
    ELSE <<>>
TypeHintsOf(p, b) ==
    IF p = "go" THEN [j \in DOMAIN b.Fields |-> b.Fields[j].TypeHint]
    ELSE IF p = "js" THEN [j \in DOMAIN b.fields |-> JS_getFieldType(b, b.fields[j])]
    ELSE [j \in DOMAIN b.fieldInfo |->
             IF b.fieldInfo[j].hasType THEN b.fieldInfo[j].type ELSE <<>>]
\* the row stores an entry under the field's name
HasField(p, row, f) ==
    IF p = "js" THEN Split(f, ".")[1] \in DOMAIN row ELSE f \in DOMAIN row
\* row[field]: Go's zero Value and the scripts' undefined both read as Null
CellOf(p, row, f) ==
    IF p = "js" THEN JS_getNestedValue(row, Split(f, "."))
    ELSE IF f \in DOMAIN row THEN row[f] ELSE Null
RefOf(p, v) ==
    IF p = "go"
    THEN (IF v.r.Relationship # <<>> THEN [kind |-> "relationship", x |-> v.r.Relationship]
          ELSE IF v.r.Namespace # <<>> THEN [kind |-> "namespaced", x |-> v.r.Namespace]
          ELSE [kind |-> "bare", x |-> <<>>])
    ELSE IF ~v.r.hasType THEN [kind |-> "bare", x |-> <<>>]
    ELSE IF (IF p = "js" THEN JS_Reference_isRelationship(v.r)
             ELSE TS_Reference_isRelationship(v.r))
    THEN [kind |-> "relationship", x |-> v.r.type]
    ELSE [kind |-> "namespaced", x |-> v.r.type]
BlockView(p, b) ==
    [kind |-> KindOf(p, b), name |-> NameOf(p, b),
     fields |-> FieldNamesOf(p, b), hints |-> TypeHintsOf(p, b),
     rows |-> [r \in DOMAIN RowsOf(p, b) |->
                  [j \in DOMAIN FieldNamesOf(p, b) |->
                      CellOf(p, RowsOf(p, b)[r], FieldNamesOf(p, b)[j])]]]
DocumentView(p, d) == [i \in DOMAIN BlocksOf(p, d) |-> BlockView(p, BlocksOf(p, d)[i])]

(* ============================== the inputs ============================= *)
\* longest row token spelled out character by character
MaxLen == 3
\* most data lines in a generated table
MaxRows == 2

\* The inputs spell numbers in plain decimal only: exponent, hexadecimal,
\* infinity and not-a-number spellings, which Go's ParseFloat and the
\* scripts' Number() also read, are outside the alphabet, and so are
\* integers wide enough to overflow 64 bits.
Alphabet == {"a", "A", "1", ".", "-", ":", "#", DQ, BS, SP}

RECURSIVE TokensUpTo(_)
TokensUpTo(n) ==
    IF n = 0 THEN {<<>>}
    ELSE LET shorter == TokensUpTo(n - 1) IN
         shorter \cup {Append(t, c) : t \in {u \in shorter : Len(u) = n - 1}, c \in Alphabet}

RECURSIVE LinesUpTo(_, _)
LinesUpTo(pool, n) ==
    IF n = 0 THEN {<<>>}
    ELSE LET shorter == LinesUpTo(pool, n - 1) IN
         shorter \cup {Append(t, l) : t \in {u \in shorter : Len(u) = n - 1}, l \in pool}

\* a one-column table whose only data line is the token
ProbePrefix == <<"t", "a", "b", "l", "e", ".", "t", NL, "x", NL>>
ProbeText(token) == ProbePrefix \o token

BareWords ==
    {W_true, W_TRUE, W_false, W_FALSE, W_null, W_NULL, <<"~">>,
     <<"+", "5">>, <<"-", "5">>, <<"1", "2">>, <<"3", ".", "1", "4">>, <<".", "5">>, <<"5", ".">>, <<"a", "b", "c">>}
RefWords ==
    {<<":", "x">>, <<":", "A", ":", "1">>, <<":", "a", ":", "1">>, <<":", "A", "1", ":", "5">>, <<":", "A", "_", "B", ":", "1">>, <<":", "A", "b", ":", "1">>, <<":", "_", ":", "1">>,
     <<":", "u", "s", "e", "r", ":", "1", "0", "1">>, <<":", "M", "E", "M", "B", "E", "R", "_", "O", "F", ":", "5">>}
\* contents written between double quotes
QuotedWords ==
    {W_true, W_null, <<"1", "2", "3">>, <<"3", ".", "1", "4">>, <<":", "x">>, <<"#", "a">>, <<"a", ".", "b">>, <<"x", SP, "y">>, <<>>, <<"~">>}
Quote(w) == <<DQ>> \o w \o <<DQ>>

ProbeTexts ==
    {ProbeText(t) : t \in (TokensUpTo(MaxLen) \ {<<>>}) \cup BareWords \cup RefWords}
    \cup {ProbeText(Quote(w)) : w \in QuotedWords}

\* a two-column table whose only data line spells a space somewhere
PairPrefix == <<"t", "a", "b", "l", "e", ".", "t", NL, "x", SP, "y", NL>>
PairTexts == {PairPrefix \o t : t \in {u \in TokensUpTo(MaxLen) : Contains(u, SP)}}

TableHeads == {<<"t", "a", "b", "l", "e", ".", "t", NL, "a", SP, "b", SP, "c", NL>>, <<"o", "b", "j", "e", "c", "t", ".", "o", NL, "a", ":", "i", "n", "t", SP, "b", ":", "S", "t", "r", "i", "n", "g", SP, "c", ".", "d", NL>>}
RowLines == {<<"1", SP, "2">>, <<"1", SP, "2", SP, "3">>, <<"1", SP, "2", SP, "3", SP, "4">>, <<"1", ".", "0", SP, DQ, "x", SP, "y", DQ, SP, ":", "A", ":", "1">>, W_dashes, <<"#", SP, "c">>}
TableTexts ==
    {h \o Join(ls, <<NL>>) : h \in TableHeads, ls \in LinesUpTo(RowLines, MaxRows)}

HeaderLines ==
    {<<"t", "a", "b", "l", "e", ".", "u", "s", "e", "r", "s">>, <<"d", "a", "t", "a", ".", "d">>, <<"i", "n", "v", "a", "l", "i", "d", "_", "h", "e", "a", "d", "e", "r">>, <<"t", ".", "a", SP, "b">>, <<"T", "a", "b", "l", "e", ".", "T">>,
     <<".", "x">>, <<"x", ".">>, <<"1", SP, "A", "l", "i", "c", "e">>}
LeadingLines == {<<>>, <<"#", SP, "c", NL>>, <<NL>>}
AfterHeader ==
    {<<>>, <<NL>>, <<NL, "#", SP, "c">>, <<NL, NL, "#", SP, "c", NL>>, <<NL, "i", "d", SP, "n", "a", "m", "e", NL, "1", SP, "A", "l", "i", "c", "e">>, <<NL, NL, "i", "d", NL, "1">>}
HeaderTexts == {l \o h \o a : l \in LeadingLines, h \in HeaderLines, a \in AfterHeader}

\* well-formed blocks that come before the line under test
Preceding == {<<>>, <<"t", "a", "b", "l", "e", ".", "t", NL, "x", NL, "1", NL, NL>>, <<"t", "a", "b", "l", "e", ".", "t", NL, "x", NL, "1", NL, NL, "o", "b", "j", "e", "c", "t", ".", "o", NL, "y", SP, "z", NL, "2", SP, "3", NL, NL>>}
OpenQuoteLines == {<<DQ, "a">>, <<"1", SP, DQ, "u", "n", "c", "l", "o", "s", "e", "d">>, <<DQ, "a", SP, "b">>}
ClosedQuoteLines == {<<DQ, "a", DQ>>, <<"1", SP, DQ, "c", "l", "o", "s", "e", "d", DQ>>}
\* the line under test as a data line, or as the field-definition line
UnterminatedTexts ==
    {p \o h \o l : p \in Preceding, h \in {<<"t", "a", "b", "l", "e", ".", "u", NL, "y", SP, "z", NL>>, <<"t", "a", "b", "l", "e", ".", "u", NL>>},
                   l \in OpenQuoteLines}
TerminatedTexts ==
    {p \o h \o l : p \in Preceding, h \in {<<"t", "a", "b", "l", "e", ".", "u", NL, "y", SP, "z", NL>>, <<"t", "a", "b", "l", "e", ".", "u", NL>>},
                   l \in ClosedQuoteLines}

\* one-column tables whose field carries a type hint
HintTexts == {<<"t", "a", "b", "l", "e", ".", "t", NL, "x", ":", "i", "n", "t", NL, "1">>, <<"o", "b", "j", "e", "c", "t", ".", "o", NL, "x", ":", "s", "t", "r", "i", "n", "g", NL, "a">>}

\* the hints with a coercion, and unquoted tokens to read under them
CoercingHints == {W_int, W_float, W_bool, W_string, W_ref}
HintedTokens ==
    {<<"1">>, <<"0">>, <<"-", "5">>, <<"1", ".", "5">>, <<"a">>, <<"t", "r", "u", "e">>, <<"F", "A", "L", "S", "E">>, <<"~">>, <<":", "x">>, <<"1", "a">>}
HintPrefix(hint) == <<"t", "a", "b", "l", "e", ".", "t", NL, "x", ":">> \o hint \o <<NL>>
HintProbeTexts == {HintPrefix(h) \o t : h \in CoercingHints, t \in HintedTokens}

\* field-definition and data lines that end in a comment
CommentTexts ==
    {<<"t", "a", "b", "l", "e", ".", "t", NL, "x", SP, "#", SP, "c", NL, "1">>, <<"t", "a", "b", "l", "e", ".", "t", NL, "x", SP, "y", SP, "#", SP, "c", NL, "1", SP, "2">>, <<"t", "a", "b", "l", "e", ".", "t", NL, "x", SP, "y", NL, "1", SP, "#", SP, "2">>,
     <<"t", "a", "b", "l", "e", ".", "t", NL, "x", SP, "y", NL, "1", SP, "2", SP, "#", SP, "c">>, <<"t", "a", "b", "l", "e", ".", "t", NL, "x", NL, DQ, "a", SP, "#", SP, "b", DQ, SP, "#", SP, "c">>, <<"t", "a", "b", "l", "e", ".", "t", NL, "x", SP, "y", NL, DQ, "#", DQ, SP, "2">>}

\* a two-column table with a separator line and the lines after it
SummaryTexts ==
    {PairPrefix \o before \o sep \o <<NL>> \o after :
        before \in {<<>>, <<"1", SP, "2", NL>>},
        sep \in {<<"-", "-", "-">>, <<"-", "-", "-", "-">>},
        after \in {<<"3", SP, "4">>, <<"3", SP, "4", NL, "5", SP, "6">>, <<"3">>}}

\* well-formed blocks of several kinds, one with a comment among its rows
WellFormedBlocks ==
    {<<"t", "a", "b", "l", "e", ".", "t", NL, "x", NL, "1">>, <<"t", "a", "b", "l", "e", ".", "u", NL, "y", SP, "z", NL, "2", SP, "3", NL, "#", SP, "c", NL, "4", SP, "5">>, <<"o", "b", "j", "e", "c", "t", ".", "o", NL, "z", NL, "3">>,
     <<"d", "a", "t", "a", ".", "d", NL, "w", NL, "4">>, <<"T", "a", "b", "l", "e", ".", "T", NL, "v", NL, "5">>}

\* what stands between two blocks: the line break alone, or a blank line too
BlockSeparators == {<<NL>>, <<NL, NL>>}

RECURSIVE BlockSequences(_)
\* texts of up to n well-formed blocks written one after another
BlockSequences(n) ==
    IF n = 1 THEN WellFormedBlocks
    ELSE BlockSequences(n - 1)
         \cup {t \o sep \o b : t \in BlockSequences(n - 1), sep \in BlockSeparators,
                                b \in WellFormedBlocks}

\* most blocks written one after another in a generated text
MaxBlocks == 2

MultiBlockTexts == BlockSequences(MaxBlocks)

\* lines met while reading the rows of a block: headers, numbers, several tokens
GuardLines ==
    {<<"t", "a", "b", "l", "e", ".", "u">>, <<"d", "a", "t", "a", ".", "d">>, <<"a", ".", "b">>, <<"3", ".", "1", "4">>, <<"a", ".", "1">>, <<"1", ".", "a">>, <<"a", ".", "b", ".", "c">>, <<".", "x">>, <<"x", ".">>,
     <<"a", ".", "b", SP, "c">>, <<"t", "a", "b", "l", "e", ".", "u", SP, "x">>, <<"1", ".", "5", SP, "2">>, <<DQ, "a", ".", "b", DQ>>}

\* a block whose first line after the fields is the line under test
GuardPrefix == <<"t", "a", "b", "l", "e", ".", "t", NL, "x", SP, "y", NL>>
GuardSuffix == <<NL, "z", NL, "9">>
GuardTexts == {GuardPrefix \o l \o GuardSuffix : l \in GuardLines}

\* string values that hold the ISONL separator
PipeWords == {<<"a", "|", "b">>, <<DQ, "a", "|", "b", DQ>>, <<DQ, "|", DQ>>}
PipeTexts == {ProbeText(w) : w \in PipeWords}

\* field lists with dot paths, one path a prefix of another among them
DotPathHeads == {<<"a", ".", "b">>, <<"a", ".", "b", SP, "a", ".", "c">>, <<"a", SP, "a", ".", "b">>, <<"a", ".", "b", SP, "a">>, <<"a", ".", "b", ".", "c", SP, "a", ".", "b">>}
DotPathRows == {<<"1", SP, "2">>, <<"x", SP, "y">>, <<":", "1", SP, "2">>, <<"1">>}
DotPathTexts == {<<"t", "a", "b", "l", "e", ".", "t", NL>> \o h \o <<NL>> \o r : h \in DotPathHeads, r \in DotPathRows}

Texts == HintProbeTexts \cup MultiBlockTexts \cup GuardTexts \cup SummaryTexts \cup CommentTexts \cup HintTexts \cup PipeTexts \cup DotPathTexts \cup ProbeTexts \cup PairTexts \cup TableTexts \cup HeaderTexts \cup UnterminatedTexts \cup TerminatedTexts

(* ---- ISONL texts ---- *)
\* characters of the value section: a separator, the quote and the backslash among them
ISONLAlphabet == {"a", "1", "|", DQ, BS, SP}

ISONLValues == UNION {[1..n -> ISONLAlphabet] : n \in 0..MaxLen}

ISONLPrefix == <<"t", "a", "b", "l", "e", ".", "t", "|", "x", "|">>

\* lines with one field whose value section is any short text
ISONLValueLines == {ISONLPrefix \o v : v \in ISONLValues}

\* records of several blocks, some sharing a name or a key
ISONLRecordLines ==
    {<<"t", "a", "b", "l", "e", ".", "t", "|", "x", "|", "1">>, <<"t", "a", "b", "l", "e", ".", "t", "|", "x", SP, "y", "|", "1", SP, "2">>, <<"t", "a", "b", "l", "e", ".", "t", "|", "y", "|", "3">>,
     <<"o", "b", "j", "e", "c", "t", ".", "t", "|", "x", "|", "2">>, <<"t", "a", "b", "l", "e", ".", "u", "|", "x", "|", "a">>, <<"#", SP, "c">>}

\* other section counts, quoted separators, headers without a dot, blanks
ISONLOtherLines ==
    {<<"t", "a", "b", "l", "e", ".", "t", "|", "x", ":", "i", "n", "t", "|", "a">>, <<"t", "a", "b", "l", "e", ".", "u", "|", "x", SP, "y", "|", "b">>,
     <<"t", "a", "b", "l", "e", ".", "t", "|", "x">>, <<"t", "a", "b", "l", "e", ".", "t", "|", "x", "|", "1", "|", "2">>, <<"t", "a", "b", "l", "e", ".", "t">>, <<"t", "|", "x", "|", "1">>,
     <<"t", "a", "b", "l", "e", ".", "t", "|", "x", "|", DQ, "a", "|", "b", DQ>>, <<"t", "a", "b", "l", "e", ".", "t", "|", DQ, "x", "|", "y", DQ, "|", "1">>,
     <<"#", SP, "a", "|", "b">>, <<>>, <<SP, "t", "a", "b", "l", "e", ".", "t", "|", "x", "|", "1", SP>>}

ISONLTexts ==
    {Join(ls, <<NL>>) : ls \in LinesUpTo(ISONLRecordLines, MaxRows + 1)}
    \cup {Join(ls, <<NL>>) : ls \in LinesUpTo(ISONLRecordLines \cup ISONLOtherLines, MaxRows)}
    \cup ISONLValueLines

\* the texts followed turn by turn
CursorTexts ==
    MultiBlockTexts \cup GuardTexts \cup SummaryTexts \cup CommentTexts \cup TableTexts
    \cup HeaderTexts \cup UnterminatedTexts

(* ============================ the state machine ======================== *)
NoDocument == [err |-> "unset", doc |-> <<>>]
\* no stream opened
NoStream == [pos |-> 0, records |-> <<>>, err |-> "unset"]

Init ==
    /\ port \in Ports
    /\ text \in Texts
    /\ pc = "start"
    /\ doc = NoDocument
    /\ opts = DefaultOptions(port)
    /\ out = <<>>
    /\ doc2 = NoDocument
    /\ out2 = <<>>
    /\ stream = NoStream

\* doc = parse(text)
ParseStep ==
    /\ pc = "start"
    /\ doc' = ParseText(port, text)
    /\ pc' = "parsed"
    /\ UNCHANGED <<port, text, opts, out, doc2, out2, stream>>

\* out = serialize(doc, o); there is nothing to serialize when parse failed
DumpsStep ==
    /\ pc = "parsed"
    /\ doc.err = "none"
    /\ \E o \in OptionsOf(port) :
          /\ opts' = o
          /\ out' = Serialize(port, doc.doc, o)
    /\ pc' = "dumped"
    /\ UNCHANGED <<port, text, doc, doc2, out2, stream>>

\* doc2 = parse(out)
ReparseStep ==
    /\ pc = "dumped"
    /\ doc2' = ParseText(port, out)
    /\ pc' = "reparsed"
    /\ UNCHANGED <<port, text, doc, opts, out, out2, stream>>

\* out2 = serialize(doc2, opts)
RedumpStep ==
    /\ pc = "reparsed"
    /\ doc2.err = "none"
    /\ out2' = Serialize(port, doc2.doc, opts)
    /\ pc' = "redumped"
    /\ UNCHANGED <<port, text, doc, opts, out, doc2, stream>>

\* out = the ISONL text of doc: the second half of the ISON to ISONL conversion
ToISONLStep ==
    /\ pc = "parsed"
    /\ doc.err = "none"
    /\ out' = SerializeISONL(port, doc.doc)
    /\ pc' = "lined"
    /\ UNCHANGED <<port, text, doc, opts, doc2, out2, stream>>

\* doc2 = the batch ISONL parse of the converted text
FromISONLStep ==
    /\ pc = "lined"
    /\ doc2' = ParseISONLText(port, out)
    /\ pc' = "relined"
    /\ UNCHANGED <<port, text, doc, opts, out, out2, stream>>

Next ==
    \/ ParseStep \/ DumpsStep \/ ReparseStep \/ RedumpStep
    \/ ToISONLStep \/ FromISONLStep

Spec == Init /\ [][Next]_vars

(* ---- one string value through the serializer and back ---- *)
Strings ==
    TokensUpTo(MaxLen) \cup BareWords \cup RefWords \cup QuotedWords
    \cup {<<NL>>, <<TAB>>, <<"a", NL, "b">>, <<"a", TAB, "b">>}

InitStr ==
    /\ port \in Ports
    /\ text \in Strings
    /\ pc = "value"
    /\ doc = NoDocument
    /\ opts = DefaultOptions(port)
    /\ out = <<>>
    /\ doc2 = NoDocument
    /\ out2 = <<>>
    /\ stream = NoStream

\* out = the token the serializer emits for String(text)
ToISONStep ==
    /\ pc = "value"
    /\ out' = SerializeString(port, text)
    /\ pc' = "token"
    /\ UNCHANGED <<port, text, doc, opts, doc2, out2, stream>>

\* the emitted token read back as the only data line of a one-column table
ReadTokenStep ==
    /\ pc = "token"
    /\ doc' = ParseText(port, ProbeText(out))
    /\ pc' = "read"
    /\ UNCHANGED <<port, text, opts, out, doc2, out2, stream>>

NextStr == ToISONStep \/ ReadTokenStep

SpecStr == InitStr /\ [][NextStr]_vars

(* ---- ISONL text through the batch parser and the streaming reader ---- *)
InitISONL ==
    /\ port \in Ports
    /\ text \in ISONLTexts
    /\ pc = "isonl"
    /\ doc = NoDocument
    /\ opts = DefaultOptions(port)
    /\ out = <<>>
    /\ doc2 = NoDocument
    /\ out2 = <<>>
    /\ stream = NoStream

\* doc = the batch parse of the ISONL text
ParseISONLStep ==
    /\ pc = "isonl"
    /\ doc' = ParseISONLText(port, text)
    /\ pc' = "batch"
    /\ UNCHANGED <<port, text, opts, out, doc2, out2, stream>>

\* the same text handed to the streaming reader
OpenStreamStep ==
    /\ pc = "batch"
    /\ port \in StreamPorts
    /\ stream' = [pos |-> 1, records |-> <<>>, err |-> "none"]
    /\ pc' = "streaming"
    /\ UNCHANGED <<port, text, doc, opts, out, doc2, out2>>

\* the reader takes the next line and yields its record, if any; r: StreamRecords of the line
StreamYield(r) ==
    IF r.err # "none" THEN [stream EXCEPT !.err = r.err]
    ELSE [stream EXCEPT !.pos = @ + 1, !.records = @ \o r.v]

StreamStep ==
    /\ pc = "streaming"
    /\ stream.err = "none"
    /\ stream.pos <= Len(StreamLines(port, text))
    /\ stream' = StreamYield(StreamRecords(port, StreamLines(port, text)[stream.pos]))
    /\ UNCHANGED <<port, text, pc, doc, opts, out, doc2, out2>>

\* the reader ends: the lines are used up, or a line made it throw
CloseStreamStep ==
    /\ pc = "streaming"
    /\ stream.err # "none" \/ stream.pos > Len(StreamLines(port, text))
    /\ pc' = "streamed"
    /\ UNCHANGED <<port, text, doc, opts, out, doc2, out2, stream>>

NextISONL == ParseISONLStep \/ OpenStreamStep \/ StreamStep \/ CloseStreamStep

SpecISONL == InitISONL /\ [][NextISONL]_vars

(* ---- a Go Document built by AddBlock calls ---- *)
\* the blocks a caller adds: three names, each under two kinds
BlockNames == {<<"a">>, <<"b">>, <<"c">>}
AddedBlocks == {NewBlock(kind, name) : kind \in {W_table, W_object}, name \in BlockNames}

\* the longest sequence of AddBlock calls followed
MaxAdds == MaxLen + 1

\* doc = NewDocument(); out is the sequence of blocks handed to AddBlock so far
InitDoc ==
    /\ port = "go"
    /\ text = <<>>
    /\ pc = "document"
    /\ doc = [err |-> "none", doc |-> NewDocument]
    /\ opts = DefaultOptions("go")
    /\ out = <<>>
    /\ doc2 = NoDocument
    /\ out2 = <<>>
    /\ stream = NoStream

\* doc.AddBlock(block)
AddBlockStep ==
    /\ pc = "document"
    /\ Len(out) < MaxAdds
    /\ \E block \in AddedBlocks :
          /\ doc' = [doc EXCEPT !.doc = AddBlock(@, block)]
          /\ out' = Append(out, block)
    /\ UNCHANGED <<port, text, pc, opts, doc2, out2, stream>>

NextDoc == AddBlockStep

SpecDoc == InitDoc /\ [][NextDoc]_vars

(* ---- a tree imported twice, each Document serialized ---- *)
\* plain Go values of a decoded JSON text
Number(n) == [go |-> "float64", v |-> <<n, 0>>]
Text(s) == [go |-> "string", v |-> s]

\* the trees handed to the importers: a map from names to a map or a list of maps
Trees ==
    {<<"a">> :> ListNode(<<<<"i", "d">> :> Number(1) @@ <<"x">> :> Number(2)>>),
     <<"a">> :> ListNode(<<<<"x">> :> Number(1), <<"x">> :> Number(2) @@ <<"y">> :> Number(3)>>),
     <<"a">> :> ListNode(<<<<"x">> :> Number(1), <<"y">> :> Number(2)>>),
     <<"a">> :> ListNode(<<<<"n", "a", "m", "e">> :> Text(<<"n">>) @@ <<"i", "d">> :> Number(1)>>),
     <<"a">> :> ListNode(<<>>),
     <<"b">> :> MapNode(<<"i", "d">> :> Number(1)),
     <<"b">> :> MapNode(<<"x">> :> Number(1) @@ <<"y">> :> Number(2)),
     <<"b">> :> MapNode(<<"x">> :> Text(<<"s">>) @@ <<"a", "_", "i", "d">> :> Number(1)),
     <<"a">> :> ListNode(<<<<"i", "d">> :> Number(1)>>) @@ <<"b">> :> MapNode(<<"x">> :> Text(<<"s">>)),
     <<"a", "s">> :> ListNode(<<<<"i", "d">> :> Number(1)>>)
        @@ <<"b">> :> ListNode(<<<<"a", "_", "i", "d">> :> Number(1) @@ <<"n", "a", "m", "e">> :> Text(<<"n">>)>>)}

\* the importers a caller may use
Importers ==
    {[api |-> "FromJSON", options |-> DefaultFromDictOptions],
     [api |-> "FromDict", options |-> DefaultFromDictOptions]}
    \cup {[api |-> "FromDictWithOptions", options |-> FromDictOptions(a, s)] :
             a \in BOOLEAN, s \in BOOLEAN}

\* for every name of the tree and every map under it, an order of its keys
KeyOrders(data) ==
    {keyOrders \in [DOMAIN data ->
                       UNION {[DOMAIN data[n].items ->
                                  UNION {Orders(DOMAIN data[n].items[i]) :
                                            i \in DOMAIN data[n].items}] : n \in DOMAIN data}] :
        \A n \in DOMAIN data :
            /\ DOMAIN keyOrders[n] = DOMAIN data[n].items
            /\ \A i \in DOMAIN data[n].items :
                  keyOrders[n][i] \in Orders(DOMAIN data[n].items[i])}

\* the Documents one call of the importer may return for the tree
Imported(importer, data) ==
    IF importer.api = "FromJSON"
    THEN {FromJSON(data, nameOrder, keyOrders) :
             nameOrder \in Orders(DOMAIN data), keyOrders \in KeyOrders(data)}
    ELSE IF importer.api = "FromDict"
    THEN {FromDict(data, keyOrders) : keyOrders \in KeyOrders(data)}
    ELSE {FromDictWithOptions(data, importer.options, keyOrders) :
             keyOrders \in KeyOrders(data)}

\* text holds the tree, opts the importer chosen
InitTree ==
    /\ port = "go"
    /\ text \in Trees
    /\ pc = "tree"
    /\ doc = NoDocument
    /\ opts \in Importers
    /\ out = <<>>
    /\ doc2 = NoDocument
    /\ out2 = <<>>
    /\ stream = NoStream

\* doc = FromJSON(tree) / FromDict(tree) / FromDictWithOptions(tree, options)
ImportStep ==
    /\ pc = "tree"
    /\ \E d \in Imported(opts, text) : doc' = [err |-> "none", doc |-> d]
    /\ pc' = "imported"
    /\ UNCHANGED <<port, text, opts, out, doc2, out2, stream>>

\* out = Dumps(doc)
DumpsTreeStep ==
    /\ pc = "imported"
    /\ out' = Dumps(doc.doc)
    /\ pc' = "written"
    /\ UNCHANGED <<port, text, doc, opts, doc2, out2, stream>>

\* doc2: the same importer called on the same tree once more
ImportAgainStep ==
    /\ pc = "written"
    /\ \E d \in Imported(opts, text) : doc2' = [err |-> "none", doc |-> d]
    /\ pc' = "imported again"
    /\ UNCHANGED <<port, text, doc, opts, out, out2, stream>>

\* out2 = Dumps(doc2)
DumpsTreeAgainStep ==
    /\ pc = "imported again"
    /\ out2' = Dumps(doc2.doc)
    /\ pc' = "written again"
    /\ UNCHANGED <<port, text, doc, opts, out, doc2, stream>>

NextTree == ImportStep \/ DumpsTreeStep \/ ImportAgainStep \/ DumpsTreeAgainStep

SpecTree == InitTree /\ [][NextTree]_vars

(* ---- ISONLStream: the goroutine, its channel and the caller ---- *)
\* the buffer of the channel, 100 records in the code, scaled down
ChanCap == 2
\* lines of the reader: always more than the channel buffers
MaxStreamLines == ChanCap + 1

ChanLines == {<<"t", "a", "b", "l", "e", ".", "t", "|", "x", "|", "1">>, <<"t", "a", "b", "l", "e", ".", "u", "|", "x", SP, "y", "|", "a", SP, "2">>, <<"#", SP, "c">>, <<"t", "a", "b", "l", "e", ".", "t", "|", "x">>}
ChanTexts == {Join(ls, <<NL>>) : ls \in LinesUpTo(ChanLines, MaxStreamLines)}

\* what the body of the scanning loop makes of each line of the reader: no
\* record, or the one record it sends
LineRecords(t) ==
    [i \in DOMAIN StreamLines("go", t) |-> StreamRecords("go", StreamLines("go", t)[i]).v]

\* ch = ISONLStream(reader) has returned: the goroutine is about to scan the
\* first line (stream.pos), out is the channel, stream.records what the caller
\* has received, opts the caller's state, out2 the reader's lines as the loop
\* body reads them
InitChan ==
    /\ port = "go"
    /\ text \in ChanTexts
    /\ pc = "scanning"
    /\ doc = NoDocument
    /\ opts = [caller |-> "receiving"]
    /\ out = makeChan
    /\ doc2 = NoDocument
    /\ out2 = LineRecords(text)
    /\ stream = [pos |-> 1, records |-> <<>>, err |-> "none"]

\* scanner.Scan() gives a line that yields no record: continue
SkipLineStep ==
    /\ pc = "scanning"
    /\ stream.pos <= Len(out2)
    /\ out2[stream.pos] = <<>>
    /\ stream' = [stream EXCEPT !.pos = @ + 1]
    /\ UNCHANGED <<port, text, pc, doc, opts, out, doc2, out2>>

\* scanner.Scan() gives a line with a record; ch <- record, which waits while
\* the buffer is full
SendStep ==
    /\ pc = "scanning"
    /\ stream.pos <= Len(out2)
    /\ out2[stream.pos] # <<>>
    /\ canSend(out, ChanCap)
    /\ out' = chanSend(out, out2[stream.pos][1])
    /\ stream' = [stream EXCEPT !.pos = @ + 1]
    /\ UNCHANGED <<port, text, pc, doc, opts, doc2, out2>>

\* scanner.Scan() is false: the goroutine returns and the deferred close(ch) runs
CloseStep ==
    /\ pc = "scanning"
    /\ stream.pos > Len(out2)
    /\ out' = chanClose(out)
    /\ pc' = "returned"
    /\ UNCHANGED <<port, text, doc, opts, doc2, out2, stream>>

\* the caller's `for record := range ch` takes the next record
ReceiveStep ==
    /\ opts.caller = "receiving"
    /\ out.buffer # <<>>
    /\ stream' = [stream EXCEPT !.records = Append(@, Head(out.buffer))]
    /\ out' = chanReceive(out)
    /\ UNCHANGED <<port, text, pc, doc, opts, doc2, out2>>

\* the channel is closed and empty: the caller's loop ends
ReceiveClosedStep ==
    /\ opts.caller = "receiving"
    /\ out.buffer = <<>>
    /\ out.closed > 0
    /\ opts' = [opts EXCEPT !.caller = "ended"]
    /\ UNCHANGED <<port, text, pc, doc, out, doc2, out2, stream>>

\* the caller leaves its loop early and receives no more
StopStep ==
    /\ opts.caller = "receiving"
    /\ opts' = [opts EXCEPT !.caller = "stopped"]
    /\ UNCHANGED <<port, text, pc, doc, out, doc2, out2, stream>>

NextChan ==
    \/ SkipLineStep \/ SendStep \/ CloseStep
    \/ ReceiveStep \/ ReceiveClosedStep \/ StopStep

SpecChan == InitChan /\ [][NextChan]_vars

\* the goroutine is scheduled whenever it can run, and a caller inside its
\* loop takes what the channel offers; nothing makes the caller stay in the loop
SpecChanFair ==
    /\ SpecChan
    /\ WF_vars(SkipLineStep) /\ WF_vars(SendStep) /\ WF_vars(CloseStep)
    /\ WF_vars(ReceiveStep) /\ WF_vars(ReceiveClosedStep)

(* ---- a parse followed turn by turn through its loops ---- *)
\* what the parser of a port walks over: Go and ison-js split the text into
\* lines, ison-ts keeps the text and a character position
SourceOf(p, t) ==
    CASE p = "go" -> splitLines(t)
      [] p = "js" -> Split(t, NL)
      [] p = "ts" -> t

\* the cursor when the outer loop is first entered
FirstCursor(p, t) ==
    Cursor("parse", IF p = "ts" THEN TS_skipWhitespaceAndComments(t, 1) ELSE 1,
           <<>>, "none", FALSE)

\* one turn of the loop the parser is in
TurnOf(p, source, c) ==
    CASE c.loop = "parse" ->
            (CASE p = "go" -> parseTurn(source, c)
               [] p = "js" -> JS_parseTurn(source, c)
               [] p = "ts" -> TS_parseTurn(source, c))
      [] c.loop = "fields" ->
            IF p = "go" THEN fieldsTurn(source, c) ELSE JS_fieldsTurn(source, c)
      [] c.loop = "rows" ->
            (CASE p = "go" -> rowsTurn(source, c)
               [] p = "js" -> JS_rowsTurn(source, c)
               [] p = "ts" -> TS_rowsTurn(source, c))
      [] c.loop = "summary" -> JS_summaryTurn(source, c)

\* the parser is constructed on the text: stream is its cursor, pc the loop
InitCursor ==
    /\ port \in Ports
    /\ text \in CursorTexts
    /\ pc = "parse"
    /\ doc = NoDocument
    /\ opts = DefaultOptions(port)
    /\ out = <<>>
    /\ doc2 = NoDocument
    /\ out2 = <<>>
    /\ stream = FirstCursor(port, text)

\* one turn of the loop over the blocks of the text
ParseTurnStep ==
    /\ pc = "parse"
    /\ stream' = TurnOf(port, SourceOf(port, text), stream)
    /\ pc' = stream'.loop
    /\ UNCHANGED <<port, text, doc, opts, out, doc2, out2>>

\* one turn between the header and the field line
FieldsTurnStep ==
    /\ pc = "fields"
    /\ stream' = TurnOf(port, SourceOf(port, text), stream)
    /\ pc' = stream'.loop
    /\ UNCHANGED <<port, text, doc, opts, out, doc2, out2>>

\* one turn of the loop over the data rows of a block
RowsTurnStep ==
    /\ pc = "rows"
    /\ stream' = TurnOf(port, SourceOf(port, text), stream)
    /\ pc' = stream'.loop
    /\ UNCHANGED <<port, text, doc, opts, out, doc2, out2>>

\* one turn of the loop of ison-js after a '---' line
SummaryTurnStep ==
    /\ pc = "summary"
    /\ stream' = TurnOf(port, SourceOf(port, text), stream)
    /\ pc' = stream'.loop
    /\ UNCHANGED <<port, text, doc, opts, out, doc2, out2>>

NextCursor == ParseTurnStep \/ FieldsTurnStep \/ RowsTurnStep \/ SummaryTurnStep

SpecCursor == InitCursor /\ [][NextCursor]_vars

\* the parse has returned its Document or thrown
ParseEnded == pc \in {"returned", "thrown"}

\* A parse that can take a turn takes it: the parser runs on its caller's
\* thread without interruption. This is weak fairness of NextCursor, written
\* with what enables it: every loop has a next turn until the parse has ended.
SpecCursorFair == SpecCursor /\ ([]<><<NextCursor>>_vars \/ []<>ParseEnded)

(* =============================== the claims ============================ *)
\* the view of a document that holds the probe table with one row, one cell
OneCell(v) ==
    <<[kind |-> W_table, name |-> <<"t">>, fields |-> <<<<"x">>>>, hints |-> <<<<>>>>,
       rows |-> <<<<v>>>>]>>

\* the data line of a probe text
ProbeToken(t) == SubSeq(t, Len(ProbePrefix) + 1, Len(t))
IsProbe(t) == HasPrefix(t, ProbePrefix) /\ Len(t) > Len(ProbePrefix)

\* C1: parsing what the default serializer wrote for a parsed Document gives
\* back the same blocks, field lists, type hints and cell values
C1_RoundTrip ==
    (pc = "reparsed" /\ opts = DefaultOptions(port)) =>
        /\ doc2.err = "none"
        /\ DocumentView(port, doc2.doc) = DocumentView(port, doc.doc)

\* C2: whatever token the serializer emits for a string s, quoted or bare,
\* reading that token back gives exactly String(s)
C2_QuotingNecessity ==
    pc = "read" =>
        /\ doc.err = "none"
        /\ DocumentView(port, doc.doc) = OneCell(String(text))

\* the data line is one token written between double quotes, no escapes
IsQuotedProbe(t) ==
    /\ IsProbe(t)
    /\ LET tok == ProbeToken(t) IN
       /\ Len(tok) >= 2
       /\ tok[1] = DQ /\ tok[Len(tok)] = DQ
       /\ \A i \in 2..(Len(tok) - 1) : tok[i] \notin {DQ, BS}
QuotedContent(t) == SubSeq(ProbeToken(t), 2, Len(ProbeToken(t)) - 1)

\* C3: a token written inside double quotes is parsed as String(token),
\* whatever its content
C3_QuotedIsString ==
    (pc = "parsed" /\ IsQuotedProbe(text)) =>
        /\ doc.err = "none"
        /\ DocumentView(port, doc.doc) = OneCell(String(QuotedContent(text)))

\* the data line is one bare token that is neither a comment, a separator
\* nor shaped like a block header
IsBareProbe(t) ==
    /\ IsProbe(t)
    /\ LET tok == ProbeToken(t) IN
       /\ \A i \in DOMAIN tok : tok[i] \notin {DQ, BS, SP, "#"}
       /\ tok # W_dashes
       /\ Contains(tok, ".") => \A i \in DOMAIN tok : IsDigit(tok[i]) \/ tok[i] \in {".", "-", "+"}

\* the inference order the claim states; a script number has one variant
InferredByOrder(p, tok) ==
    IF tok \in {W_true, W_TRUE} THEN Bool(TRUE)
    ELSE IF tok \in {W_false, W_FALSE} THEN Bool(FALSE)
    ELSE IF tok \in {<<"~">>, W_null, W_NULL} THEN Null
    ELSE IF HasPrefix(tok, <<":">>) THEN [t |-> "Ref"]
    ELSE IF IsIntSyntax(tok, FALSE) THEN IntV(ParseIntText(tok))
    ELSE IF IsDecimalPattern(tok)
    THEN (IF p = "go" THEN Float(ParseDecimalText(tok)) ELSE JS_Number(ParseDecimalText(tok)))
    ELSE String(tok)

\* C4: an unquoted token with no type hint is typed by the first matching
\* rule: booleans, nulls, references, integers, decimals, else a string
C4_InferenceOrder ==
    (pc = "parsed" /\ IsBareProbe(text)) =>
        /\ doc.err = "none"
        /\ LET want == InferredByOrder(port, ProbeToken(text))
               view == DocumentView(port, doc.doc)
           IN IF want.t = "Ref"
              THEN /\ Len(view) = 1 /\ Len(view[1].rows) = 1
                   /\ view[1].rows[1][1].t = "Ref"
              ELSE view = OneCell(want)

\* the data line is ':id' or ':X:id' with X and id not empty
IsRefProbe(t) ==
    /\ IsBareProbe(t)
    /\ LET parts == Split(ProbeToken(t), ":") IN
       /\ Len(parts) \in {2, 3}
       /\ parts[1] = <<>>
       /\ \A i \in 2..Len(parts) : parts[i] # <<>>
RefParts(t) == Split(ProbeToken(t), ":")
AllUpperOrUnderscore(x) == x # <<>> /\ \A i \in DOMAIN x : IsUpper(x[i]) \/ x[i] = "_"

\* C5: ':X:id' is a relationship reference exactly when X is all upper-case
\* letters or '_', else a namespaced one; ':id' is bare; never both set
C5_ReferenceCase ==
    (pc = "parsed" /\ IsRefProbe(text)) =>
        /\ doc.err = "none"
        /\ LET view == DocumentView(port, doc.doc)
               parts == RefParts(text)
           IN /\ Len(view) = 1 /\ Len(view[1].rows) = 1
              /\ LET v == view[1].rows[1][1] IN
                 /\ v.t = "Ref"
                 /\ RefOf(port, v) =
                       IF Len(parts) = 2 THEN [kind |-> "bare", x |-> <<>>]
                       ELSE IF AllUpperOrUnderscore(parts[2])
                       THEN [kind |-> "relationship", x |-> parts[2]]
                       ELSE [kind |-> "namespaced", x |-> parts[2]]
                 /\ port = "go" => ~(v.r.Namespace # <<>> /\ v.r.Relationship # <<>>)

\* C6: every parsed data row holds an entry for every declared field of its
\* block, and a short or long line is never an error
C6_RowCompleteness ==
    (pc = "parsed" /\ text \in TableTexts) =>
        /\ doc.err = "none"
        /\ \A i \in DOMAIN BlocksOf(port, doc.doc) :
              LET b == BlocksOf(port, doc.doc)[i] IN
              \A r \in DOMAIN RowsOf(port, b) : \A j \in DOMAIN FieldNamesOf(port, b) :
                  HasField(port, RowsOf(port, b)[r], FieldNamesOf(port, b)[j])

\* C7: a field-definition or data line that opens a quote and never closes
\* it makes the parse fail with the unterminated-string error
C7_UnterminatedString ==
    (pc = "parsed" /\ text \in UnterminatedTexts) => doc.err = "UnterminatedString"

\* letter or '_' first, then letters, digits or '_'
IsIdentifier(s) ==
    /\ s # <<>>
    /\ IsLower(s[1]) \/ IsUpper(s[1]) \/ s[1] = "_"
    /\ \A i \in 2..Len(s) : IsLower(s[i]) \/ IsUpper(s[i]) \/ IsDigit(s[i]) \/ s[i] = "_"
IsHeaderForm(line) ==
    LET parts == Split(line, ".") IN
    Len(parts) = 2 /\ IsIdentifier(parts[1]) /\ IsIdentifier(parts[2])

\* C8: the first line that is neither blank nor a comment is accepted as the
\* header when it is identifier.identifier, and otherwise fails the parse
\* with the invalid-header error
C8_InvalidHeader ==
    pc = "parsed" =>
        \A l \in LeadingLines, h \in HeaderLines, a \in AfterHeader :
            text = l \o h \o a =>
                IF IsHeaderForm(h)
                THEN /\ doc.err \in {"none", "MissingFieldDefinitions"}
                     /\ doc.err = "none" =>
                           /\ Len(BlocksOf(port, doc.doc)) >= 1
                           /\ KindOf(port, BlocksOf(port, doc.doc)[1]) = Split(h, ".")[1]
                           /\ NameOf(port, BlocksOf(port, doc.doc)[1]) = Split(h, ".")[2]
                ELSE doc.err = "InvalidHeader"

\* what may follow a header when the input ends without field definitions
OnlyBlankOrComment == {<<>>, <<NL>>, <<NL, "#", SP, "c">>, <<NL, NL, "#", SP, "c", NL>>}

\* headers every port takes as a header: identifier.identifier, kind table,
\* object or meta
KnownKindHeaders ==
    {h \in HeaderLines : IsHeaderForm(h) /\ Split(h, ".")[1] \in {W_table, W_object, W_meta}}

\* C9: a header followed only by blank or comment lines, or by nothing,
\* fails the parse with the missing-field-definitions error
C9_MissingFieldDefinitions ==
    pc = "parsed" =>
        \A l \in LeadingLines, h \in KnownKindHeaders, a \in OnlyBlankOrComment :
            text = l \o h \o a => doc.err = "MissingFieldDefinitions"

\* C10: with the options fixed, serializing the reparsed output gives the
\* first output again, character for character
C10_Idempotent ==
    /\ pc \in {"reparsed", "redumped"} => doc2.err = "none"
    /\ pc = "redumped" => out2 = out

\* the same options with column alignment switched
FlipAlign(o) == [o EXCEPT !.AlignColumns = ~@]

\* two parse calls ended alike: the same error, or the same Document
SameOutcome(a, b) == a.err = b.err /\ (a.err = "none" => a.doc = b.doc)

C12_DelimiterChoice ==
    (pc = "reparsed" /\ port = "go" /\ opts.Delimiter # DefaultDumpsOptions.Delimiter) =>
        /\ doc2.err = "none"
        /\ DocumentView(port, doc2.doc) = DocumentView(port, doc.doc)

RECURSIVE UnquotedPipes(_, _, _)
\* the number of '|' of the line from position i on that stand outside double
\* quotes; inside quotes a backslash takes the next character with it
UnquotedPipes(line, i, inQuotes) ==
    IF i > Len(line) THEN 0
    ELSE IF inQuotes /\ line[i] = BS THEN UnquotedPipes(line, i + 2, inQuotes)
    ELSE IF line[i] = DQ THEN UnquotedPipes(line, i + 1, ~inQuotes)
    ELSE (IF line[i] = "|" /\ ~inQuotes THEN 1 ELSE 0) + UnquotedPipes(line, i + 1, inQuotes)

\* the lines of an ISONL text that are neither blank nor comments
RecordLines(t) ==
    SelectSeq(Split(t, NL),
              LAMBDA l : TrimSpace(l) # <<>> /\ ~HasPrefix(TrimSpace(l), <<"#">>))

\* C13: the ISONL parse fails with the three-sections syntax error when a
\* non-blank, non-comment line has a number of '|' outside quotes other than
\* two, and never fails with it when every such line has exactly two
C13_SectionCount ==
    pc = "batch" =>
        /\ (\E i \in DOMAIN RecordLines(text) : UnquotedPipes(RecordLines(text)[i], 1, FALSE) # 2)
              => doc.err # "none"
        /\ (\A i \in DOMAIN RecordLines(text) : UnquotedPipes(RecordLines(text)[i], 1, FALSE) = 2)
              => doc.err # "NotThreeSections"

\* the three sections of a line that holds no quote: header, field names, value tokens
SectionsOf(line) ==
    [header |-> Split(line, "|")[1],
     fields |-> Split(Split(line, "|")[2], SP),
     values |-> Split(Split(line, "|")[3], SP)]

RECURSIVE FirstHeaders(_, _, _)
\* the 'kind.name' keys of the lines in order of first appearance
FirstHeaders(lines, i, keys) ==
    IF i > Len(lines) THEN keys
    ELSE FirstHeaders(lines, i + 1,
                      IF SectionsOf(lines[i]).header \in Range(keys) THEN keys
                      ELSE Append(keys, SectionsOf(lines[i]).header))

\* the value an unquoted, unhinted token of digits or letters stands for
PlainValue(token) == IF AllDigits(token) THEN IntV(ParseIntText(token)) ELSE String(token)

\* the cells a record line gives under its own field list
PlainRow(line) ==
    [j \in DOMAIN SectionsOf(line).fields |->
        IF j <= Len(SectionsOf(line).values) THEN PlainValue(SectionsOf(line).values[j])
        ELSE Null]

\* block b holds the records recs of one key, in line order: kind, name, the
\* first record's fields, one row per record, and the record's own cells in
\* the row of every record that repeats the first one's field list
HoldsGroup(b, key, recs) ==
    /\ b.kind = SplitFirst(key, ".")[1]
    /\ b.name = SplitFirst(key, ".")[2]
    /\ b.fields = SectionsOf(recs[1]).fields
    /\ Len(b.rows) = Len(recs)
    /\ \A r \in DOMAIN recs :
          SectionsOf(recs[r]).fields = SectionsOf(recs[1]).fields => b.rows[r] = PlainRow(recs[r])

\* one block per key, keys in order of first appearance
HoldsGroups(view, lines, keys) ==
    /\ Len(view) = Len(keys)
    /\ \A k \in DOMAIN keys :
          HoldsGroup(view[k], keys[k], SelectSeq(lines, LAMBDA l : SectionsOf(l).header = keys[k]))

\* every non-blank, non-comment line is a plain record line
PlainRecords(t) == \A i \in DOMAIN RecordLines(t) : RecordLines(t)[i] \in ISONLRecordLines

\* C14: the Document decoded from ISONL text has one block per 'kind.name' key,
\* in order of first appearance, with the fields of the key's first record and
\* one row per record of the key in line order; keys that differ only in kind
\* stay separate blocks
C14_Grouping ==
    (pc = "batch" /\ PlainRecords(text)) =>
        /\ doc.err = "none"
        /\ HoldsGroups(DocumentView(port, doc.doc), RecordLines(text),
                       FirstHeaders(RecordLines(text), 1, <<>>))

\* the number of entries of s equal to x
CountOf(s, x) == Cardinality({i \in DOMAIN s : s[i] = x})

\* the two sequences hold the same entries the same number of times
SameMultiset(s, t) ==
    /\ Len(s) = Len(t)
    /\ \A x \in Range(s) \cup Range(t) : CountOf(s, x) = CountOf(t, x)

RECURSIVE RowsByName(_, _, _)
\* every row of the blocks from the k-th on, paired with its block's name
RowsByName(p, blocks, k) ==
    IF k > Len(blocks) THEN <<>>
    ELSE [r \in DOMAIN RowsOf(p, blocks[k]) |->
             [name |-> NameOf(p, blocks[k]), values |-> RowsOf(p, blocks[k])[r]]]
         \o RowsByName(p, blocks, k + 1)

\* the records the streaming reader yielded: block name and field-to-value mapping
RecordsByName(p, records) ==
    [i \in DOMAIN records |->
        IF p = "go" THEN [name |-> records[i].Name, values |-> records[i].Values]
        ELSE [name |-> records[i].name, values |-> records[i].values]]

\* every non-blank, non-comment line has its three sections
ThreeSections(t) ==
    \A i \in DOMAIN RecordLines(t) : UnquotedPipes(RecordLines(t)[i], 1, FALSE) = 2

\* C15: when every line of an ISONL text is valid and the batch parser accepts
\* it, the streaming reader decodes every line too, and its records (block
\* name, field-to-value mapping) are, as a multiset, the rows of the batch
\* parser's Document paired with their block names
C15_StreamBatch ==
    (pc = "streamed" /\ ThreeSections(text) /\ doc.err = "none") =>
        /\ stream.err = "none"
        /\ SameMultiset(RecordsByName(port, stream.records),
                        RowsByName(port, BlocksOf(port, doc.doc), 1))

\* C16: after an ISON text is parsed and converted to ISONL, parsing the ISONL
\* text succeeds and gives, for every block of the parsed ISON text that has a
\* row, a block with the same kind, name, field names, type hints and rows
C16_Conversion ==
    pc = "relined" =>
        /\ doc2.err = "none"
        /\ \A i \in DOMAIN DocumentView(port, doc.doc) :
              DocumentView(port, doc.doc)[i].rows # <<>> =>
                  \E k \in DOMAIN DocumentView(port, doc2.doc) :
                      DocumentView(port, doc2.doc)[k] = DocumentView(port, doc.doc)[i]

RECURSIVE CommentStart(_, _, _)
\* the position of the first '#' outside double quotes from i on, 0 when there
\* is none; inside quotes a backslash takes the next character with it
CommentStart(line, i, inQuotes) ==
    IF i > Len(line) THEN 0
    ELSE IF inQuotes /\ line[i] = BS THEN CommentStart(line, i + 2, inQuotes)
    ELSE IF line[i] = DQ THEN CommentStart(line, i + 1, ~inQuotes)
    ELSE IF line[i] = "#" /\ ~inQuotes THEN i
    ELSE CommentStart(line, i + 1, inQuotes)

\* the line without its inline comment; a line that is a comment as a whole,
\* or holds no comment, is left as it is
WithoutComment(line) ==
    IF HasPrefix(TrimSpace(line), <<"#">>) \/ CommentStart(line, 1, FALSE) = 0 THEN line
    ELSE SubSeq(line, 1, CommentStart(line, 1, FALSE) - 1)

\* a header line 'table.t', a field-definition line and one data line
IsThreeLines(t) == Len(Split(t, NL)) = 3 /\ Split(t, NL)[1] = <<"t", "a", "b", "l", "e", ".", "t">>

\* the same text with the inline comments of its field and data line removed
Uncommented(t) ==
    Split(t, NL)[1] \o <<NL>> \o WithoutComment(Split(t, NL)[2])
    \o <<NL>> \o WithoutComment(Split(t, NL)[3])

\* the field or the data line of the text carries an inline comment
HasInlineComment(t) == IsThreeLines(t) /\ Uncommented(t) # t

\* C17: a '#' outside double quotes on a field-definition or data line starts
\* a comment that contributes nothing: the text parses to what the same text
\* without the comment parses to, and a '#' inside quotes stays in its string
C17_InlineComments ==
    (pc = "parsed" /\ HasInlineComment(text)) =>
        SameOutcome(doc, ParseText(port, Uncommented(text)))

\* C18: in the generic tree of a parsed Document, a block of kind 'object'
\* with exactly one row is a single map under the block's name, and every other
\* block is a list with one map per row
C18_TreeShape ==
    (pc = "parsed" /\ doc.err = "none") =>
        \A name \in DOMAIN TreeOf(port, doc.doc) :
            /\ Len(TreeOf(port, doc.doc)[name].items)
                  = Len(RowsOf(port, BlockNamed(port, doc.doc, name)))
            /\ TreeOf(port, doc.doc)[name].shape
                  = IF /\ KindOf(port, BlockNamed(port, doc.doc, name)) = W_object
                       /\ Len(RowsOf(port, BlockNamed(port, doc.doc, name))) = 1
                    THEN "map" ELSE "list"

\* the tokens of the data line of a three-line text
DataTokens(t) == Split(Split(t, NL)[3], SP)

\* C19: for a block whose fields are dot paths, one of them possibly a prefix
\* of another, parsing does not fail with a TypeError, and every declared field
\* that has a token on the data line reads back, along its dot path, a value
\* that the serializer writes as that token
C19_DotPaths ==
    (pc = "parsed" /\ text \in DotPathTexts) =>
        /\ doc.err # "TypeError"
        /\ doc.err = "none" =>
              \A j \in DOMAIN FieldNamesOf(port, BlocksOf(port, doc.doc)[1]) :
                  j <= Len(DataTokens(text)) =>
                      SerializeValue(port,
                          CellOf(port, RowsOf(port, BlocksOf(port, doc.doc)[1])[1],
                                 FieldNamesOf(port, BlocksOf(port, doc.doc)[1])[j]))
                      = DataTokens(text)[j]

\* the index of the first line of the text that is exactly '---', 0 for none
DashesAt(t) ==
    IF \E i \in DOMAIN Split(t, NL) : Split(t, NL)[i] = W_dashes
    THEN CHOOSE i \in DOMAIN Split(t, NL) :
             Split(t, NL)[i] = W_dashes /\ \A j \in 1..(i - 1) : Split(t, NL)[j] # W_dashes
    ELSE 0

\* the text cut before its '---' line
BeforeDashes(t) == Join(SubSeq(Split(t, NL), 1, DashesAt(t) - 1), <<NL>>)

\* header and fields of the text with the line after '---' as the only data line
SummaryAsData(t) == PairPrefix \o Split(t, NL)[DashesAt(t) + 1]

\* the rows of the first block of what the port parses from the text
FirstRows(p, t) == RowsOf(p, BlocksOf(p, ParseText(p, t).doc)[1])

\* C20: in a block with a line that is exactly '---', the line after it is the
\* block's one summary row, holding what the same line holds as a data row;
\* the data rows are those before the '---' (and no others when the summary
\* line ends the text), and no second summary row is kept
C20_SummaryMode ==
    (pc = "parsed" /\ text \in SummaryTexts /\ DashesAt(text) # 0) =>
        /\ doc.err = "none"
        /\ SummaryOf(port, BlocksOf(port, doc.doc)[1]) = FirstRows(port, SummaryAsData(text))
        /\ Len(RowsOf(port, BlocksOf(port, doc.doc)[1])) >= Len(FirstRows(port, BeforeDashes(text)))
        /\ SubSeq(RowsOf(port, BlocksOf(port, doc.doc)[1]), 1,
                  Len(FirstRows(port, BeforeDashes(text))))
              = FirstRows(port, BeforeDashes(text))
        /\ Len(Split(text, NL)) = DashesAt(text) + 1 =>
              RowsOf(port, BlocksOf(port, doc.doc)[1]) = FirstRows(port, BeforeDashes(text))

\* the block a header line opens, before its fields and rows are read
OpenedBlock(header) ==
    [kind |-> SplitFirst(header, ".")[1], name |-> SplitFirst(header, ".")[2],
     fields |-> <<>>, rows |-> <<>>, hasFields |-> FALSE]

\* the cells of a data line of plain tokens under the field names
PlainCells(fields, line) ==
    [j \in DOMAIN fields |->
        IF j <= Len(Split(line, SP)) THEN PlainValue(Split(line, SP)[j]) ELSE Null]

\* the last block with one more line read into it: its fields, or a row
WithLine(b, line) ==
    IF ~b.hasFields THEN [b EXCEPT !.fields = Split(line, SP), !.hasFields = TRUE]
    ELSE [b EXCEPT !.rows = Append(@, PlainCells(b.fields, line))]

RECURSIVE BlocksWritten(_, _, _)
\* the blocks of a text of well-formed blocks, read off its lines: a header
\* opens a block, blank and comment lines add nothing, any other line is the
\* open block's field list or its next row
BlocksWritten(lines, i, blocks) ==
    IF i > Len(lines) THEN blocks
    ELSE IF lines[i] = <<>> \/ HasPrefix(lines[i], <<"#">>)
    THEN BlocksWritten(lines, i + 1, blocks)
    ELSE IF IsHeaderForm(lines[i])
    THEN BlocksWritten(lines, i + 1, Append(blocks, OpenedBlock(lines[i])))
    ELSE BlocksWritten(lines, i + 1,
                       [blocks EXCEPT ![Len(blocks)] = WithLine(@, lines[i])])

\* kind, name, field names and rows of the blocks of a Document
ShapeOf(p, d) ==
    [k \in DOMAIN DocumentView(p, d) |->
        [kind |-> DocumentView(p, d)[k].kind, name |-> DocumentView(p, d)[k].name,
         fields |-> DocumentView(p, d)[k].fields, rows |-> DocumentView(p, d)[k].rows]]

\* the same four components of the blocks read off the text
ShapeWritten(blocks) ==
    [k \in DOMAIN blocks |->
        [kind |-> blocks[k].kind, name |-> blocks[k].name,
         fields |-> blocks[k].fields, rows |-> blocks[k].rows]]

\* C21: a text of well-formed blocks written one after another, with or
\* without blank lines between them and with comment lines among the rows,
\* parses to exactly those blocks in input order, each with its own rows
C21_BlockBoundaries ==
    (pc = "parsed" /\ text \in MultiBlockTexts) =>
        /\ doc.err = "none"
        /\ ShapeOf(port, doc.doc) = ShapeWritten(BlocksWritten(Split(text, NL), 1, <<>>))

\* the line under test of a text of GuardTexts
GuardLine(t) == Split(t, NL)[3]

\* exactly one token X.Y without whitespace, X and Y valid identifiers
IsGuardHeader(line) == ~Contains(line, SP) /\ ~Contains(line, TAB) /\ IsHeaderForm(line)

\* C22: while the rows of a block are read, a line ends the block as a new
\* header only if it is one whitespace-free token X.Y of two identifiers; any
\* other line holding a '.' is a data row of the block
C22_AmbiguityGuard ==
    (pc = "parsed" /\ text \in GuardTexts) =>
        /\ doc.err = "none"
        /\ Len(DocumentView(port, doc.doc)) = IF IsGuardHeader(GuardLine(text)) THEN 2 ELSE 1
        /\ Len(DocumentView(port, doc.doc)[1].rows)
               = IF IsGuardHeader(GuardLine(text)) THEN 0 ELSE 3

RECURSIVE FirstInsertions(_, _, _)
\* the names of the added blocks, each at its first insertion only
FirstInsertions(added, i, names) ==
    IF i > Len(added) THEN names
    ELSE FirstInsertions(added, i + 1,
             IF \E j \in DOMAIN names : names[j] = added[i].Name THEN names
             ELSE Append(names, added[i].Name))

\* the block added last under a name
LastAdded(added, name) ==
    added[CHOOSE i \in DOMAIN added :
              /\ added[i].Name = name
              /\ \A j \in DOMAIN added : added[j].Name = name => j <= i]

\* C23: after any sequence of AddBlock calls on a new Go Document, Order holds
\* every block name exactly once in first-insertion order, its names are the
\* keys of Blocks, and a name added again keeps its place in Order while the
\* stored block is the one added last
C23_DocumentOrder ==
    pc = "document" =>
        /\ doc.doc.Order = FirstInsertions(out, 1, <<>>)
        /\ \A i, j \in DOMAIN doc.doc.Order :
              doc.doc.Order[i] = doc.doc.Order[j] => i = j
        /\ {doc.doc.Order[i] : i \in DOMAIN doc.doc.Order} = DOMAIN doc.doc.Blocks
        /\ \A name \in DOMAIN doc.doc.Blocks : doc.doc.Blocks[name] = LastAdded(out, name)

\* a name added twice with two different blocks, after another name came in between
C23_Witness ==
    /\ pc = "document"
    /\ Len(out) = 3
    /\ out[1].Name = out[3].Name
    /\ out[1] # out[3]
    /\ out[2].Name # out[1].Name

\* the serialized tokens of the lines of a block: the field line first, then
\* the data rows
ColumnTokens(p, b) ==
    <<[j \in DOMAIN b.fields |->
          IF b.hints[j] # <<>> THEN b.fields[j] \o <<":">> \o b.hints[j] ELSE b.fields[j]]>>
    \o [r \in DOMAIN b.rows |-> [j \in DOMAIN b.fields |-> SerializeValue(p, b.rows[r][j])]]

RECURSIVE WidestIn(_, _, _)
\* the widest token of column j over the lines
WidestIn(lines, j, w) ==
    IF lines = <<>> THEN w ELSE WidestIn(Tail(lines), j, Max(w, Len(Head(lines)[j])))

\* one line of the aligned layout: every token but the last padded to its column
AlignedLine(tokens, lines) ==
    Join([j \in DOMAIN tokens |->
             IF j < Len(tokens) THEN PadEnd(tokens[j], WidestIn(lines, j, 0)) ELSE tokens[j]],
         <<SP>>)

\* the field line and the data lines of the block are laid out in columns
LaidOut(lines, written) ==
    /\ Len(written) >= 1 + Len(lines)
    /\ \A k \in DOMAIN lines : written[1 + k] = AlignedLine(lines[k], lines)
    /\ \A k \in DOMAIN written : written[k] = TrimRight(written[k])

\* C24: with alignment requested, every token of a column but the last (the
\* field line's and every data row's) is padded on the right to the widest
\* serialized token of the column, the last column is never padded and no
\* output line ends in whitespace
C24_AlignmentLayout ==
    (/\ pc = "dumped" /\ opts.AlignColumns /\ opts.Delimiter = <<SP>>
     /\ Len(BlocksOf(port, doc.doc)) = 1
     /\ SummaryOf(port, BlocksOf(port, doc.doc)[1]) = <<>>
     /\ Len(DocumentView(port, doc.doc)[1].fields) >= 1) =>
        LaidOut(ColumnTokens(port, DocumentView(port, doc.doc)[1]), Split(out, NL))

\* the token of a probe text: what follows the field line
ProbedToken(t) == SubSeq(t, Len(ProbePrefix) + 1, Len(t))

\* a token the tokenizer hands to the value parser unchanged, beginning with ':'
IsReferenceToken(token) ==
    /\ HasPrefix(token, <<":">>)
    /\ \A i \in DOMAIN token : token[i] \notin {SP, TAB, DQ, BS, "#", CR}

\* C25: a token beginning with ':' that the reference parser accepts is what
\* formatting the parsed Reference returns
C25_ReferenceInverse ==
    (/\ pc = "parsed" /\ text \in ProbeTexts /\ IsReferenceToken(ProbedToken(text))
     /\ doc.err = "none"
     /\ Len(DocumentView(port, doc.doc)) = 1
     /\ Len(DocumentView(port, doc.doc)[1].rows) = 1
     /\ DocumentView(port, doc.doc)[1].rows[1][1].t = "Ref") =>
        SerializeValue(port, DocumentView(port, doc.doc)[1].rows[1][1]) = ProbedToken(text)

\* the hint and the token of a text of HintProbeTexts
HintOf(t) == SplitFirst(Split(t, NL)[2], ":")[2]
HintedToken(t) == Split(t, NL)[3]

\* the first cell of the only row a port reads from a one-column table
OnlyCell(p, t) == DocumentView(p, ParseText(p, t).doc)[1].rows[1][1]

\* the values a successful coercion of the token against the hint may give
Coerced(hint, token) ==
    CASE hint = W_int -> IF IsIntSyntax(token, FALSE) THEN {IntV(ParseIntText(token))} ELSE {}
      [] hint = W_float ->
            IF IsIntSyntax(token, FALSE) THEN {Float(<<ParseIntText(token), 0>>)}
            ELSE IF IsDecimalPattern(token) THEN {Float(ParseDecimalText(token))}
            ELSE {}
      [] hint = W_bool ->
            IF token \in {W_true, W_TRUE, <<"1">>} THEN {Bool(TRUE)}
            ELSE IF token \in {W_false, W_FALSE, <<"0">>} THEN {Bool(FALSE)}
            ELSE {}
      [] hint = W_string -> {String(token)}
      [] OTHER -> {}

\* C26: under a hint of int, float, bool, string or ref the value of a token
\* is a coercion of the token against the hint or else exactly what the port
\* infers for the token without a hint, and the parse never fails
C26_HintsAdvisory ==
    (pc = "parsed" /\ text \in HintProbeTexts) =>
        /\ doc.err = "none"
        /\ \/ DocumentView(port, doc.doc)[1].rows[1][1]
                 \in Coerced(HintOf(text), HintedToken(text))
           \/ DocumentView(port, doc.doc)[1].rows[1][1]
                 = OnlyCell(port, ProbeText(HintedToken(text)))

\* C27: importing the same tree twice with FromJSON, FromDict or
\* FromDictWithOptions and serializing each Document gives the same text
C27_DeterministicImport == pc = "written again" => out2 = out

RECURSIVE RecordsUpTo(_, _)
\* the records of the first n lines, one for each line that holds a record
RecordsUpTo(lines, n) ==
    IF n = 0 THEN <<>>
    ELSE RecordsUpTo(lines, n - 1) \o StreamRecords("go", lines[n]).v

C29_StreamCancellation == <>(pc = "returned")

\* how far a cursor is from the end of what it walks over
Remaining(p, t, c) ==
    (IF p = "ts" THEN Len(t) ELSE Len(SourceOf(p, t))) + 1 - c.pos

\* the loops from the outermost in: a turn that leaves the cursor where it is
\* leaves its loop for one further out
Depth(loop) ==
    CASE loop = "returned" -> 0 [] loop = "thrown" -> 0 [] loop = "parse" -> 1
      [] loop = "fields" -> 2 [] loop = "rows" -> 3 [] loop = "summary" -> 4

\* a turn moves the cursor forward, or leaves its loop without moving it back
Advances ==
    /\ stream'.pos >= stream.pos
    /\ stream'.pos = stream.pos => Depth(stream'.loop) < Depth(stream.loop)

\* a header line the row loop left unread is read by the turn that follows
ConsumesPending == stream.pending => stream'.pos > stream.pos

====
